---- MODULE Spec2Model ----
(***************************************************************************)
(* A model of the shared-memory SKI arena of rust/src/arena.rs: the        *)
(* columnar node store with its hash-cons index and seqlock-guarded        *)
(* growth, the SPSC rings, the iterative reducer and the worker loop.      *)
(*                                                                         *)
(* Representation.  TLC integers are 32-bit signed, so a u32 of the code   *)
(* is held as the i32 with the same bit pattern (as WebAssembly itself     *)
(* does): 0xFFFF_FFFF is -1, and unsigned comparisons go through ULt/UGe.  *)
(* The linear memory that holds the columns is a byte array; a u32 store   *)
(* writes four little-endian bytes, so that overlapping layouts and stale  *)
(* pointers behave as they do in the program.                              *)
(*                                                                         *)
(* Scaling.  The program's sizes (1024..2^27 rows, 1024 ring slots, 64     *)
(* byte alignment, 64 KiB pages, 20000 gas) are scaled down so that        *)
(* growth, wrap-around and yields happen within a few steps; every         *)
(* capacity stays a multiple of the alignment, as in the program.          *)
(***************************************************************************)
EXTENDS Integers, Sequences, FiniteSets, TLC

\* --------------------------------------------------------------------------
\* u32 arithmetic on i32 bit patterns
\* --------------------------------------------------------------------------
\* The element of a one-element set.  In The({f(x) : x \in {e}}) the value of e
\* is computed once, before f(x) is.  (An operator evaluates an argument where
\* its body first uses it.)
The(S) == CHOOSE x \in S : TRUE

I32_MAX == 2147483646 + 1
I32_MIN == (-I32_MAX) - 1
TwoTo8  == 16 * 16
TwoTo16 == TwoTo8 * TwoTo8
TwoTo24 == TwoTo16 * TwoTo8

EMPTY == -1
POISON_SEQ == -1
U32_MAX == -1

\* unsigned a < b, a >= b on bit patterns
ULt(a, b) == IF (a >= 0) = (b >= 0) THEN a < b ELSE a >= 0
UGe(a, b) == ~ULt(a, b)
UMin(a, b) == IF ULt(a, b) THEN a ELSE b

\* wrapping_add(1), wrapping_sub, saturating_sub(1)
WInc(a) == IF a = I32_MAX THEN I32_MIN ELSE a + 1
WDec(a) == IF a = I32_MIN THEN I32_MAX ELSE a - 1
SatKeep(a) == a
SatDec(a) == IF a = 0 THEN 0 ELSE WDec(a)
WSub(a, b) ==
    IF a >= 0 /\ b < 0 /\ a > I32_MAX + b THEN (a + I32_MIN) - (b - I32_MIN)
    ELSE IF a < 0 /\ b > 0 /\ a < I32_MIN + b THEN (a - I32_MIN) - (b + I32_MIN)
    ELSE a - b
WAdd(a, b) ==
    IF a > 0 /\ b > 0 /\ a > I32_MAX - b THEN (a + I32_MIN) + (b + I32_MIN)
    ELSE IF a < 0 /\ b < 0 /\ a < I32_MIN - b THEN (a - I32_MIN) + (b - I32_MIN)
    ELSE a + b

\* the four little-endian bytes of a u32, and back
ToBytes(v) ==
    LET Split(u) ==
            <<u % TwoTo8, (u \div TwoTo8) % TwoTo8, (u \div TwoTo16) % TwoTo8,
              (u \div TwoTo24) + (IF v < 0 THEN 128 ELSE 0)>>
    IN Split(IF v >= 0 THEN v ELSE (v + I32_MAX) + 1)
FromBytes(b) ==
    (b[1] + TwoTo8 * b[2])
      + (TwoTo16 * b[3] + TwoTo24 * (IF b[4] >= 128 THEN b[4] - TwoTo8 ELSE b[4]))

\* the two 16-bit halves <<lo, hi>> of a u32, and back
HalvesOf(b) == <<b[1] + TwoTo8 * b[2], b[3] + TwoTo8 * b[4]>>
ToHalves(v) == HalvesOf(ToBytes(v))
FromHalves(h) ==
    FromBytes(<<h[1] % TwoTo8, h[1] \div TwoTo8, h[2] % TwoTo8, h[2] \div TwoTo8>>)

\* bit i of a ^ b, in place; a ^ b on bytes
XorBit(a, b, i) == (((a \div (2 ^ i)) + (b \div (2 ^ i))) % 2) * (2 ^ i)
Xor8(a, b) ==
    ((XorBit(a, b, 0) + XorBit(a, b, 1)) + (XorBit(a, b, 2) + XorBit(a, b, 3)))
      + ((XorBit(a, b, 4) + XorBit(a, b, 5)) + (XorBit(a, b, 6) + XorBit(a, b, 7)))
XorBytes(x, y) ==
    FromBytes(<<Xor8(x[1], y[1]), Xor8(x[2], y[2]), Xor8(x[3], y[3]), Xor8(x[4], y[4])>>)

\* a ^ b on u32
Xor32(a, b) == The({XorBytes(x, y) : x \in {ToBytes(a)}, y \in {ToBytes(b)}})

\* a >> k on u32, for 0 < k <= 16
ShrHalves(x, k) ==
    FromHalves(<<(x[1] \div (2 ^ k)) + (x[2] % (2 ^ k)) * (2 ^ (16 - k)),
                 x[2] \div (2 ^ k)>>)
Shr32(a, k) == ShrHalves(ToHalves(a), k)

\* a.wrapping_mul(b) on u32, from the bytes x of a and y of b: the byte products
\* that reach the low half, those that reach only the high half (in units of
\* 2^16), and the low half's carry into the high one
MulLow(x, y) == (x[1] * y[1]) + TwoTo8 * ((x[1] * y[2]) + (x[2] * y[1]))
MulHigh(x, y) ==
    (((x[1] * y[3]) + (x[2] * y[2])) + (x[3] * y[1]))
      + TwoTo8 * (((x[1] * y[4]) + (x[2] * y[3])) + ((x[3] * y[2]) + (x[4] * y[1])))
MulBytes(x, y) ==
    FromHalves(<<MulLow(x, y) % TwoTo16,
                 ((MulLow(x, y) \div TwoTo16) + MulHigh(x, y)) % TwoTo16>>)
WMul(a, b) == The({MulBytes(x, y) : x \in {ToBytes(a)}, y \in {ToBytes(b)}})

\* v & mask for a mask of the form 2^k - 1, 0 <= mask < 2^16
AndMask(v, mask) == v % (mask + 1)

\* 0x7feb_352d, 0x846c_a68b, 0x9e37_79b9 as bit patterns
AVA_M1 == FromBytes(<<45, 53, 235, 127>>)
AVA_M2 == FromBytes(<<139, 166, 108, 132>>)
GOLD == FromBytes(<<185, 121, 55, 158>>)

XorShr(x, k) == The({Xor32(x, s) : s \in {Shr32(x, k)}})
\* x ^= x >> 16; x *= 0x7feb352d; x ^= x >> 15; x *= 0x846ca68b; x ^= x >> 16
avalanche32(x0) ==
    The({XorShr(x4, 16) :
           x4 \in {WMul(x3, AVA_M2) :
             x3 \in {XorShr(x2, 15) :
               x2 \in {WMul(x1, AVA_M1) :
                 x1 \in {XorShr(x0, 16)}}}}})

mix(a, b) == The({avalanche32(x0) : x0 \in {Xor32(a, m) : m \in {WMul(b, GOLD)}}})

\* --------------------------------------------------------------------------
\* Program constants (scaled, see the head of the module)
\* --------------------------------------------------------------------------
MIN_CAP == 2
MAX_CAP == 32
ALIGN == 2
WASM_PAGE_SIZE == 64
RING_ENTRIES == 2
TERM_CACHE_LEN == 4

\* ArenaKind, ArenaSym, reducer stages and modes
Terminal == 1
NonTerm == 2
Continuation == 3
Suspension == 4
SYM_S == 1
SYM_K == 2
SYM_I == 3
STAGE_LEFT == 0
STAGE_RIGHT == 1
MODE_DESCEND == 0
MODE_RETURN == 1

align64(x) == ((x + (ALIGN - 1)) \div ALIGN) * ALIGN

\* The byte array `mem` starts at the kind column: the header and the two
\* rings, which lie below it and never move, are held in variables of their own.
COL_BASE == 0

\* SabHeader::layout / init_header / grow: the offsets for a capacity
Layout(capacity) ==
    LET Buckets(offset_kind, offset_left_id, offset_buckets) ==
            [offset_kind |-> offset_kind, offset_sym |-> offset_kind + capacity,
             offset_left_id |-> offset_left_id,
             offset_right_id |-> offset_left_id + 4 * capacity,
             offset_hash32 |-> offset_left_id + 8 * capacity,
             offset_next_idx |-> offset_left_id + 12 * capacity,
             offset_buckets |-> offset_buckets,
             offset_term_cache |-> offset_buckets + 4 * capacity,
             total_size |-> offset_buckets + 4 * capacity + 4 * TERM_CACHE_LEN]
        Words(offset_kind, offset_left_id) ==
            Buckets(offset_kind, offset_left_id, align64(offset_left_id + 16 * capacity))
        Bytes(offset_kind) == Words(offset_kind, align64(offset_kind + 2 * capacity))
    IN Bytes(align64(COL_BASE))

PagesFor(bytes) == (bytes + WASM_PAGE_SIZE - 1) \div WASM_PAGE_SIZE

\* --------------------------------------------------------------------------
\* Linear memory
\* --------------------------------------------------------------------------
MemSize(m) == Cardinality(DOMAIN m)
InMem(m, addr, len) == addr >= 0 /\ addr + len <= MemSize(m)

Load8(m, addr) == m[addr]
Store8(m, addr, v) == [m EXCEPT ![addr] = v % TwoTo8]
Load32(m, addr) == FromBytes(<<m[addr], m[addr + 1], m[addr + 2], m[addr + 3]>>)
StoreBytes(m, addr, b) ==
    [m EXCEPT ![addr] = b[1], ![addr + 1] = b[2], ![addr + 2] = b[3], ![addr + 3] = b[4]]
Store32(m, addr, v) == StoreBytes(m, addr, ToBytes(v))

\* core::ptr::copy (memmove) and write_bytes(0)
MemCopy(m, src, dst, len) ==
    [i \in DOMAIN m |-> IF i >= dst /\ i < dst + len THEN m[src + (i - dst)] ELSE m[i]]
zero_region(m, start, len) ==
    [i \in DOMAIN m |-> IF i >= start /\ i < start + len THEN 0 ELSE m[i]]
\* memory.grow by whole pages
MemGrow(m, pages) ==
    [i \in 0..(MemSize(m) + pages * WASM_PAGE_SIZE - 1) |-> IF i \in DOMAIN m THEN m[i] ELSE 0]

\* --------------------------------------------------------------------------
\* The arena: SabHeader fields plus the memory they describe
\* --------------------------------------------------------------------------
kind_ptr(a, i) == a.offset_kind + i
sym_ptr(a, i) == a.offset_sym + i
left_ptr(a, i) == a.offset_left_id + 4 * i
right_ptr(a, i) == a.offset_right_id + 4 * i
hash_ptr(a, i) == a.offset_hash32 + 4 * i
next_ptr(a, i) == a.offset_next_idx + 4 * i
buckets_ptr(a, i) == a.offset_buckets + 4 * i
term_cache_ptr(a, i) == a.offset_term_cache + 4 * i

\* n consecutive u32 slots from addr set to EMPTY (every byte 0xff)
FillEmpty(m, addr, n) ==
    [i \in DOMAIN m |-> IF i >= addr /\ i < addr + 4 * n THEN TwoTo8 - 1 ELSE m[i]]

\* allocate_raw_arena + init_header: the arena right after initArena(capacity)
init_header(capacity) ==
    LET Header(L) ==
           [capacity |-> capacity, bucket_mask |-> capacity - 1,
            resize_seq |-> 0, top |-> 0,
            offset_kind |-> L.offset_kind, offset_sym |-> L.offset_sym,
            offset_left_id |-> L.offset_left_id, offset_right_id |-> L.offset_right_id,
            offset_hash32 |-> L.offset_hash32, offset_next_idx |-> L.offset_next_idx,
            offset_buckets |-> L.offset_buckets, offset_term_cache |-> L.offset_term_cache,
            mem |-> FillEmpty(FillEmpty([i \in 0..(PagesFor(L.total_size) * WASM_PAGE_SIZE - 1)
                                          |-> 0],
                                        L.offset_buckets, capacity),
                              L.offset_term_cache, TERM_CACHE_LEN)]
    IN Header(Layout(capacity))

\* is_power_of_two, and initArena's argument check
is_power_of_two(n) == n > 0 /\ \E k \in 0..30 : n = 2 ^ k
initArenaOk(capacity) ==
    ~(capacity < MIN_CAP \/ capacity > MAX_CAP \/ ~is_power_of_two(capacity))

\* Raw column reads of row i (no seqlock, no bounds check)
KindAt(a, i) == Load8(a.mem, kind_ptr(a, i))
SymAt(a, i) == Load8(a.mem, sym_ptr(a, i))
LeftAt(a, i) == Load32(a.mem, left_ptr(a, i))
RightAt(a, i) == Load32(a.mem, right_ptr(a, i))
HashAt(a, i) == Load32(a.mem, hash_ptr(a, i))
NextAt(a, i) == Load32(a.mem, next_ptr(a, i))
BucketAt(a, b) == Load32(a.mem, buckets_ptr(a, b))
TermCacheAt(a, s) == Load32(a.mem, term_cache_ptr(a, s))

Poisoned(a) == a.resize_seq = POISON_SEQ
Stable(a) == ~Poisoned(a) /\ a.resize_seq % 2 = 0

\* kindOf / symOf / leftOf / rightOf / hash_of_internal on a stable arena
kindOf(a, n) == IF UGe(n, a.capacity) THEN 0 ELSE KindAt(a, n)
symOf(a, n) == IF UGe(n, a.capacity) THEN 0 ELSE SymAt(a, n)
leftOf(a, n) == IF UGe(n, a.capacity) THEN 0 ELSE LeftAt(a, n)
rightOf(a, n) == IF UGe(n, a.capacity) THEN 0 ELSE RightAt(a, n)
hash_of_internal(a, n) == IF UGe(n, a.capacity) THEN 0 ELSE HashAt(a, n)

\* --------------------------------------------------------------------------
\* grow(): the phases between the even->odd CAS and the final fetch_add
\* --------------------------------------------------------------------------
\* the resizer's locals, read right after it has taken the seqlock
GrowLocals(a) ==
    [old_cap |-> a.capacity,
     old_offset_kind |-> a.offset_kind, old_offset_sym |-> a.offset_sym,
     old_offset_left |-> a.offset_left_id, old_offset_right |-> a.offset_right_id,
     old_offset_hash |-> a.offset_hash32, old_offset_next |-> a.offset_next_idx,
     old_offset_term_cache |-> a.offset_term_cache,
     old_top |-> a.top,
     new_cap |-> IF a.capacity * 2 < MAX_CAP THEN a.capacity * 2 ELSE MAX_CAP,
     count |-> UMin(a.top, a.capacity)]

GrowAtCeiling(g) == g.old_cap >= MAX_CAP
\* pages the resizer must ask the host for (0: the region already fits)
GrowPagesNeeded(a, g) ==
    LET needed_bytes == Layout(g.new_cap).total_size
        current_bytes == MemSize(a.mem)
    IN IF needed_bytes > current_bytes THEN PagesFor(needed_bytes - current_bytes) ELSE 0

GrowPoison(a) == [a EXCEPT !.resize_seq = POISON_SEQ]

\* memory.grow granted, header rewritten for new_cap, top clamped
GrowHeader(a, g) ==
    LET Header(L) ==
            [a EXCEPT !.mem = MemGrow(a.mem, GrowPagesNeeded(a, g)),
                      !.capacity = g.new_cap, !.bucket_mask = g.new_cap - 1,
                      !.offset_kind = L.offset_kind, !.offset_sym = L.offset_sym,
                      !.offset_left_id = L.offset_left_id,
                      !.offset_right_id = L.offset_right_id,
                      !.offset_hash32 = L.offset_hash32,
                      !.offset_next_idx = L.offset_next_idx,
                      !.offset_buckets = L.offset_buckets,
                      !.offset_term_cache = L.offset_term_cache,
                      !.top = g.count]
    IN Header(Layout(g.new_cap))

\* one column: copy `count` elements of `size` bytes, then zero the extension
CopyColumn(m, g, old_off, new_off, size) ==
    LET m1 == MemCopy(m, old_off, new_off, g.count * size)
    IN IF g.new_cap > g.old_cap
       THEN zero_region(m1, new_off + g.old_cap * size, (g.new_cap - g.old_cap) * size)
       ELSE m1

CopyTermCache(a, g) ==
    [a EXCEPT !.mem = MemCopy(a.mem, g.old_offset_term_cache, a.offset_term_cache,
                              4 * TERM_CACHE_LEN)]
CopyNext(a, g) ==
    [a EXCEPT !.mem = CopyColumn(a.mem, g, g.old_offset_next, a.offset_next_idx, 4)]
CopyHash(a, g) ==
    [a EXCEPT !.mem = CopyColumn(a.mem, g, g.old_offset_hash, a.offset_hash32, 4)]
CopyRight(a, g) ==
    [a EXCEPT !.mem = CopyColumn(a.mem, g, g.old_offset_right, a.offset_right_id, 4)]
CopyLeft(a, g) ==
    [a EXCEPT !.mem = CopyColumn(a.mem, g, g.old_offset_left, a.offset_left_id, 4)]
CopySym(a, g) ==
    [a EXCEPT !.mem = CopyColumn(a.mem, g, g.old_offset_sym, a.offset_sym, 1)]
CopyKind(a, g) ==
    [a EXCEPT !.mem = CopyColumn(a.mem, g, g.old_offset_kind, a.offset_kind, 1)]

\* the same copies front to back (kind first): what the reverse order avoids
GrowCopyForward(a, g) ==
    CopyTermCache(CopyNext(CopyHash(CopyRight(CopyLeft(CopySym(CopyKind(a, g), g), g), g), g), g), g)
\* reverse order: term_cache, next, hash, right, left, sym, kind
GrowCopy(a, g) ==
    The({CopyKind(a6, g) :
           a6 \in {CopySym(a5, g) :
             a5 \in {CopyLeft(a4, g) :
               a4 \in {CopyRight(a3, g) :
                 a3 \in {CopyHash(a2, g) :
                   a2 \in {CopyNext(a1, g) :
                     a1 \in {CopyTermCache(a, g)}}}}}}})

\* one turn of the rebuild loop (none past count): row i, if it is an
\* Application, heads its bucket
RehashRow(a, i, count) ==
    IF i >= count \/ KindAt(a, i) # NonTerm THEN a
    ELSE The({[a EXCEPT !.mem = Store32(p[2], buckets_ptr(a, p[1]), i)] :
                p \in {<<b, Store32(a.mem, next_ptr(a, i), BucketAt(a, b))>> :
                  b \in {AndMask(HashAt(a, i), a.bucket_mask)}}})

\* the turns for rows i..j-1
RECURSIVE RehashRows(_, _, _, _)
RehashRows(a, i, j, count) ==
    IF i >= j THEN a
    ELSE The({RehashRows(h, i + 1, j, count) : h \in {RehashRow(a, i, count)}})

\* rehash rows i..count-1, in order, into the (already emptied) buckets
RECURSIVE Rehash(_, _, _)
Rehash(a, i, count) ==
    IF i >= count THEN a
    ELSE The({Rehash(h, i + 8, count) : h \in {RehashRows(a, i, i + 8, count)}})

GrowRebuild(a, g) ==
    Rehash([a EXCEPT !.mem = FillEmpty(a.mem, a.offset_buckets, g.new_cap)], 0, g.count)

GrowRelease(a) == [a EXCEPT !.resize_seq = WInc(a.resize_seq)]

\* grow() run alone by one thread, the host granting the memory
grow(a) ==
    LET Resize(a1, g) ==
            IF GrowAtCeiling(g) THEN GrowPoison(a1)
            ELSE The({GrowRelease(a4) :
                        a4 \in {GrowRebuild(a3, g) :
                          a3 \in {GrowCopy(a2, g) :
                            a2 \in {GrowHeader(a1, g)}}}})
        Locked(a1) == Resize(a1, GrowLocals(a1))
    IN Locked([a EXCEPT !.resize_seq = a.resize_seq + 1])

\* --------------------------------------------------------------------------
\* Allocation, run alone by one thread.  Each returns [a |-> arena, id |-> id];
\* a trap (poisoned seqlock) leaves the arena poisoned and id = EMPTY.
\* --------------------------------------------------------------------------
Trapped(a) == [a |-> a, id |-> EMPTY]

\* wait_resize_stable / fetch_add(top) / grow-and-retry: the row an allocator gets
RECURSIVE BumpTop(_)
BumpTop(a) ==
    IF Poisoned(a) THEN Trapped(a)
    ELSE IF UGe(a.top, a.capacity) THEN BumpTop(grow([a EXCEPT !.top = WInc(a.top)]))
    ELSE [a |-> [a EXCEPT !.top = WInc(a.top)], id |-> a.top]

StoreTerminalRow(a, id, sym) ==
    LET m1 == Store8(a.mem, kind_ptr(a, id), Terminal)
        m2 == Store8(m1, sym_ptr(a, id), sym)
    IN [a EXCEPT !.mem = Store32(m2, hash_ptr(a, id), sym)]

allocTerminal(a, sym) ==
    IF ULt(sym, 4) /\ TermCacheAt(a, sym) # EMPTY THEN [a |-> a, id |-> TermCacheAt(a, sym)]
    ELSE LET Cache(a1, id) ==
                 [a |-> IF ULt(sym, 4)
                        THEN [a1 EXCEPT !.mem = Store32(a1.mem, term_cache_ptr(a1, sym), id)]
                        ELSE a1,
                  id |-> id]
             Fill(n) ==
                 IF Poisoned(n.a) THEN Trapped(n.a)
                 ELSE Cache(StoreTerminalRow(n.a, n.id, sym), n.id)
         IN Fill(BumpTop(a))

\* alloc_generic: payload first, kind last; no bucket insertion
StoreGenericRow(a, id, kind, sym, left, right, hash) ==
    LET m1 == Store8(a.mem, sym_ptr(a, id), sym)
        m2 == Store32(m1, left_ptr(a, id), left)
        m3 == Store32(m2, right_ptr(a, id), right)
        m4 == Store32(m3, hash_ptr(a, id), hash)
    IN [a EXCEPT !.mem = Store8(m4, kind_ptr(a, id), kind)]

alloc_generic(a, kind, sym, left, right, hash) ==
    LET Fill(n) ==
            IF Poisoned(n.a) THEN Trapped(n.a)
            ELSE [a |-> StoreGenericRow(n.a, n.id, kind, sym, left, right, hash), id |-> n.id]
    IN Fill(BumpTop(a))

alloc_continuation(a, parent, target, stage) ==
    alloc_generic(a, Continuation, stage, parent, target, 0)
alloc_suspension(a, curr, stack, mode, remaining_steps) ==
    alloc_generic(a, Suspension, mode, curr, stack, remaining_steps)

update_continuation(a, id, parent, target, stage) ==
    LET m1 == Store32(a.mem, left_ptr(a, id), parent)
        m2 == Store32(m1, right_ptr(a, id), target)
        m3 == Store8(m2, sym_ptr(a, id), stage)
    IN [a EXCEPT !.mem = Store8(m3, kind_ptr(a, id), Continuation)]

\* The bucket walk of the lookup (lines 1170-1190): from `cur`, the first row of
\* kind NonTerm with this hash and these children; EMPTY when the chain ends or
\* leaves the capacity.  `fuel` bounds the walk: a chain longer than the arena
\* has rows is cyclic, and the program would walk it forever (hang).
RECURSIVE LookupWalk(_, _, _, _, _, _)
LookupWalk(a, cur, hval, l, r, fuel) ==
    IF cur = EMPTY \/ UGe(cur, a.capacity) THEN [id |-> EMPTY, hang |-> FALSE]
    ELSE IF fuel = 0 THEN [id |-> EMPTY, hang |-> TRUE]
    ELSE IF KindAt(a, cur) = NonTerm /\ HashAt(a, cur) = hval
            /\ LeftAt(a, cur) = l /\ RightAt(a, cur) = r
         THEN [id |-> cur, hang |-> FALSE]
    ELSE LookupWalk(a, NextAt(a, cur), hval, l, r, fuel - 1)

Lookup(a, hval, l, r) ==
    LookupWalk(a, BucketAt(a, AndMask(hval, a.bucket_mask)), hval, l, r, a.capacity)

StoreConsRow(a, id, l, r, hval) ==
    LET m1 == Store8(a.mem, kind_ptr(a, id), NonTerm)
        m2 == Store32(m1, left_ptr(a, id), l)
        m3 == Store32(m2, right_ptr(a, id), r)
    IN [a EXCEPT !.mem = Store32(m3, hash_ptr(a, id), hval)]

\* next[id] = head; bucket[b] = id
PushBucket(a, b, id) ==
    LET m1 == Store32(a.mem, next_ptr(a, id), BucketAt(a, b))
    IN [a EXCEPT !.mem = Store32(m1, buckets_ptr(a, b), id)]

allocCons(a, l, r) ==
    IF Poisoned(a) THEN Trapped(a)
    ELSE IF UGe(l, a.capacity) \/ UGe(r, a.capacity) THEN [a |-> a, id |-> EMPTY]
    ELSE LET Link(a1, hval, id) ==
                 [a |-> PushBucket(a1, AndMask(hval, a1.bucket_mask), id), id |-> id]
             Insert(hval, n) ==
                 IF Poisoned(n.a) THEN Trapped(n.a)
                 ELSE Link(StoreConsRow(n.a, n.id, l, r, hval), hval, n.id)
             Found(hval, found) ==
                 IF found # EMPTY THEN [a |-> a, id |-> found]
                 ELSE Insert(hval, BumpTop(a))
         IN The({Found(hval, Lookup(a, hval, l, r).id) :
                   hval \in {mix(HashAt(a, l), HashAt(a, r))}})

\* --------------------------------------------------------------------------
\* The reducer, run by one thread on a stable arena.  A run is a record
\*   a: arena, curr/stack/mode/free: the loop's locals, gas, rem: remaining_steps,
\*   rw: redex rewrites performed so far (history), res: "run" while looping,
\*   then "Done" / "Yield" (node: the result) or "Trap" (the seqlock is poisoned)
\* --------------------------------------------------------------------------
BATCH_GAS == 6

Run(a, curr, stack, mode, gas, rem, free) ==
    [a |-> a, curr |-> curr, stack |-> stack, mode |-> mode, gas |-> gas, rem |-> rem,
     free |-> free, rw |-> 0, turns |-> 0, res |-> "run", node |-> EMPTY]

\* StepResult::Yield(alloc_suspension(curr, stack, mode, remaining))
YieldWith(s, curr, stack, mode, remaining) ==
    LET Suspended(n) ==
            IF Poisoned(n.a) THEN [s EXCEPT !.a = n.a, !.res = "Trap"]
            ELSE [s EXCEPT !.a = n.a, !.res = "Yield", !.node = n.id]
    IN Suspended(alloc_suspension(s.a, curr, stack, mode, remaining))

RebuiltBare(s, l, r, stack, recycled) ==
    [s EXCEPT !.stack = stack, !.free = recycled, !.mode = MODE_RETURN]
\* curr = allocCons(l, r); free_node = recycled; mode = MODE_RETURN
Rebuilt(s, l, r, stack, recycled) ==
    LET Consed(n) ==
            IF Poisoned(n.a) THEN [s EXCEPT !.a = n.a, !.res = "Trap"]
            ELSE [s EXCEPT !.a = n.a, !.curr = n.id, !.stack = stack, !.free = recycled,
                           !.mode = MODE_RETURN]
    IN Consed(allocCons(s.a, l, r))

\* MODE_RETURN: Done at the empty stack, else pop one frame
StepReturn(s) ==
    IF s.stack = EMPTY THEN [s EXCEPT !.res = "Done", !.node = s.curr]
    ELSE LET recycled == s.stack
             stack == leftOf(s.a, recycled)
             parent_node == rightOf(s.a, recycled)
             stage == symOf(s.a, recycled)
             GoRight(a2) ==
                 [s EXCEPT !.a = a2, !.stack = recycled, !.mode = MODE_DESCEND,
                           !.curr = rightOf(a2, parent_node)]
         IN IF stage = STAGE_LEFT
            THEN IF s.curr # leftOf(s.a, parent_node)
                 THEN Rebuilt(s, s.curr, rightOf(s.a, parent_node), stack, recycled)
                 ELSE GoRight(update_continuation(s.a, recycled, stack, parent_node,
                                                  STAGE_RIGHT))
            ELSE IF s.curr # rightOf(s.a, parent_node)
                 THEN Rebuilt(s, leftOf(s.a, parent_node), s.curr, stack, recycled)
                 ELSE [s EXCEPT !.curr = parent_node, !.stack = stack, !.free = recycled,
                                !.mode = MODE_RETURN]

IsSym(a, n, sym) == kindOf(a, n) = Terminal /\ symOf(a, n) = sym
IsRedexI(a, curr) == IsSym(a, leftOf(a, curr), SYM_I)
IsRedexK(a, curr) ==
    /\ kindOf(a, leftOf(a, curr)) = NonTerm
    /\ IsSym(a, leftOf(a, leftOf(a, curr)), SYM_K)
IsRedexS(a, curr) ==
    /\ kindOf(a, leftOf(a, curr)) = NonTerm
    /\ kindOf(a, leftOf(a, leftOf(a, curr))) = NonTerm
    /\ IsSym(a, leftOf(a, leftOf(a, leftOf(a, curr))), SYM_S)

\* the contractum of each rule: [a, id]
ContractI(a, curr) == [a |-> a, id |-> rightOf(a, curr)]
ContractKLeft(a, curr) == [a |-> a, id |-> leftOf(a, curr)]
ContractK(a, curr) == [a |-> a, id |-> rightOf(a, leftOf(a, curr))]
ContractS(a, curr) ==
    The({allocCons(p[2].a, p[1].id, p[2].id) :
           p \in {<<xz, allocCons(xz.a, rightOf(a, leftOf(a, curr)), rightOf(a, curr))>> :
             xz \in {allocCons(a, rightOf(a, leftOf(a, leftOf(a, curr))),
                               rightOf(a, curr))}}})

\* one redex at curr: budget check, decrement, contraction, yield at zero
Rewrite(s, c) ==
    IF s.rem = 0 THEN YieldWith(s, s.curr, s.stack, s.mode, 0)
    ELSE IF Poisoned(c.a) THEN [s EXCEPT !.a = c.a, !.res = "Trap"]
    ELSE LET Stepped(s2) ==
                 IF s2.rem = 0 THEN YieldWith(s2, s2.curr, s2.stack, s2.mode, 0) ELSE s2
         IN Stepped([s EXCEPT !.a = c.a, !.rem = SatDec(s.rem), !.rw = s.rw + 1,
                              !.curr = c.id, !.mode = MODE_RETURN])

\* no redex here: push a frame (a recycled one if there is one) and go left
Push(s) ==
    IF s.free # EMPTY
    THEN [s EXCEPT !.a = update_continuation(s.a, s.free, s.stack, s.curr, STAGE_LEFT),
                   !.stack = s.free, !.free = EMPTY,
                   !.curr = leftOf(s.a, s.curr), !.mode = MODE_DESCEND]
    ELSE LET Pushed(n) ==
                 IF Poisoned(n.a) THEN [s EXCEPT !.a = n.a, !.res = "Trap"]
                 ELSE [s EXCEPT !.a = n.a, !.stack = n.id,
                                !.curr = leftOf(s.a, s.curr), !.mode = MODE_DESCEND]
         IN Pushed(alloc_continuation(s.a, s.stack, s.curr, STAGE_LEFT))

StepDescend(s) ==
    IF kindOf(s.a, s.curr) # NonTerm THEN [s EXCEPT !.mode = MODE_RETURN]
    ELSE IF IsRedexI(s.a, s.curr) THEN Rewrite(s, ContractI(s.a, s.curr))
    ELSE IF IsRedexK(s.a, s.curr) THEN Rewrite(s, ContractK(s.a, s.curr))
    ELSE IF IsRedexS(s.a, s.curr) THEN Rewrite(s, ContractS(s.a, s.curr))
    ELSE Push(s)

\* one turn of step_iterative's loop (rw and turns count the rewrites and the
\* turns that took gas)
StepOnce(s) ==
    IF s.gas = 0 THEN YieldWith(s, s.curr, s.stack, s.mode, s.rem)
    ELSE IF s.mode = MODE_RETURN
    THEN StepReturn([s EXCEPT !.gas = WDec(s.gas), !.turns = s.turns + 1])
    ELSE StepDescend([s EXCEPT !.gas = WDec(s.gas), !.turns = s.turns + 1])

\* the loop, until it returns
RECURSIVE StepTurns(_, _)
StepTurns(s, k) ==
    IF s.res # "run" \/ k = 0 THEN s
    ELSE The({StepTurns(t, k - 1) : t \in {StepOnce(s)}})

RECURSIVE step_iterative(_)
step_iterative(s) ==
    IF s.res # "run" THEN s ELSE The({step_iterative(t) : t \in {StepTurns(s, 8)}})

\* [a, id, rw, trap]
step_internal(a, expr) ==
    LET Result(s) ==
            [a |-> s.a, id |-> IF s.res = "Done" THEN s.node ELSE expr,
             rw |-> s.rw, trap |-> s.res = "Trap"]
    IN Result(step_iterative(Run(a, expr, EMPTY, MODE_DESCEND, U32_MAX, U32_MAX, EMPTY)))

arenaKernelStep(a, expr) == step_internal(a, expr)

ReduceLimitPlusOne(max) == WInc(max)
ReduceLimit(max) == max

\* reduce's loop: q = [a, id, rw, trap, left: iterations left, stop]
RECURSIVE ReduceLoop(_)
ReduceLoop(q) ==
    IF q.stop \/ q.trap \/ q.left = 0 THEN q
    ELSE LET After(n) ==
                 [a |-> n.a, id |-> n.id, rw |-> q.rw + n.rw, trap |-> n.trap,
                  left |-> WDec(q.left), stop |-> n.id = q.id]
         IN ReduceLoop(After(step_internal(q.a, q.id)))

reduce(a, expr, max) ==
    ReduceLoop([a |-> a, id |-> expr, rw |-> 0, trap |-> Poisoned(a),
                left |-> ReduceLimit(max), stop |-> FALSE])

UnwindDropFrames(u) == [u EXCEPT !.stack = EMPTY]
\* unwind_to_root: u = [a, curr, stack]
RECURSIVE unwind_to_root(_)
unwind_to_root(u) ==
    IF u.stack = EMPTY \/ Poisoned(u.a) THEN u
    ELSE LET recycled == u.stack
             stack == leftOf(u.a, recycled)
             parent_node == rightOf(u.a, recycled)
             Popped(n) == [a |-> n.a, curr |-> n.id, stack |-> stack]
         IN unwind_to_root(Popped(
                IF symOf(u.a, recycled) = STAGE_LEFT
                THEN IF u.curr # leftOf(u.a, parent_node)
                     THEN allocCons(u.a, u.curr, rightOf(u.a, parent_node))
                     ELSE [a |-> u.a, id |-> parent_node]
                ELSE IF u.curr # rightOf(u.a, parent_node)
                     THEN allocCons(u.a, leftOf(u.a, parent_node), u.curr)
                     ELSE [a |-> u.a, id |-> parent_node]))

\* --------------------------------------------------------------------------
\* Ring<T>: head, tail, the two wait/notify words, and the slots (seq, payload)
\* --------------------------------------------------------------------------
Sqe(node_id, req_id, max_steps) ==
    [node_id |-> node_id, req_id |-> req_id, max_steps |-> max_steps]
Cqe(node_id, req_id) == [node_id |-> node_id, req_id |-> req_id, pad |-> 0]

\* Ring::init_at over zeroed memory
init_at(entries_pow2, zero) ==
    [head |-> 0, tail |-> 0, not_empty |-> 0, not_full |-> 0,
     entries |-> entries_pow2, mask |-> entries_pow2 - 1,
     seq |-> [i \in 0..(entries_pow2 - 1) |-> i],
     payload |-> [i \in 0..(entries_pow2 - 1) |-> zero]]

\* a ring every slot of which has been used `laps` times and is free again
RingAfter(laps, zero) ==
    LET r == init_at(RING_ENTRIES, zero)
        at == WMul(laps, RING_ENTRIES)
    IN [r EXCEPT !.head = at, !.tail = at, !.not_empty = at, !.not_full = at,
                 !.seq = [i \in DOMAIN r.seq |-> WAdd(at, i)]]

SlotIndexZero(r, i) == 0
slot_at(r, i) == AndMask(i, r.mask)

\* try_enqueue / try_dequeue run without interference: [r, ok, item]
try_enqueue(r, item) ==
    LET t == r.tail
        diff == WSub(r.seq[slot_at(r, t)], t)
    IN IF diff = 0
       THEN [r |-> [r EXCEPT !.tail = WInc(t),
                             !.payload[slot_at(r, t)] = item,
                             !.seq[slot_at(r, t)] = WInc(t),
                             !.not_empty = WInc(r.not_empty)],
             ok |-> TRUE, item |-> item]
       ELSE [r |-> r, ok |-> FALSE, item |-> item]

try_dequeue(r) ==
    LET h == r.head
        diff == WSub(r.seq[slot_at(r, h)], WInc(h))
    IN IF diff = 0
       THEN [r |-> [r EXCEPT !.head = WInc(h),
                             !.seq[slot_at(r, h)] = WInc(WAdd(h, r.mask)),
                             !.not_full = WInc(r.not_full)],
             ok |-> TRUE, item |-> r.payload[slot_at(r, h)]]
       ELSE [r |-> r, ok |-> FALSE, item |-> r.payload[slot_at(r, h)]]

\* ---- workerLoop: one job, from the dequeued Sqe to the completion's node -----
ResumeBudgetFromJob(a, susp, job) == job.max_steps
\* "Strict resume": the counter saved in the suspension's hash field
ResumeBudget(a, susp, job) == hash_of_internal(a, susp)

WorkerStart(a, job) ==
    LET susp == job.node_id
    IN IF kindOf(a, susp) = Suspension
       THEN Run(a, leftOf(a, susp), rightOf(a, susp), symOf(a, susp), BATCH_GAS,
                ResumeBudget(a, susp, job), susp)
       ELSE Run(a, job.node_id, EMPTY, MODE_DESCEND, BATCH_GAS, job.max_steps, EMPTY)

\* the inner loop; ends with res = "Done" / "Yield" (node: what is enqueued) or "Trap"
RECURSIVE WorkerJob(_)
WorkerJob(w) ==
    IF w.res # "run" THEN w
    ELSE IF Poisoned(w.a) THEN [w EXCEPT !.res = "Trap"]
    ELSE IF w.rem = 0
    THEN LET Unwound(u) ==
                 IF Poisoned(u.a) THEN [w EXCEPT !.a = u.a, !.res = "Trap"]
                 ELSE [w EXCEPT !.a = u.a, !.stack = EMPTY, !.res = "Done", !.node = u.curr]
         IN Unwound(unwind_to_root([a |-> w.a, curr |-> w.curr, stack |-> w.stack]))
    ELSE LET Batch(r) ==
                 IF r.res # "Done" \/ r.node = w.curr THEN r
                 ELSE [r EXCEPT !.res = "run", !.node = EMPTY, !.curr = r.node,
                                !.stack = EMPTY, !.mode = MODE_DESCEND, !.free = EMPTY]
         IN WorkerJob(Batch(step_iterative([w EXCEPT !.gas = BATCH_GAS])))

CompletionZeroReq(job, node) == Cqe(node, 0)
CompletionFor(job, node) == Cqe(node, job.req_id)

\* --------------------------------------------------------------------------
\* Bounds of the model
\* --------------------------------------------------------------------------
NThreads == 2
\* calls the first thread may make (every other thread: one fewer), largest child id
MaxOps == 2
MaxArg == 1

Threads == 1..NThreads

VARIABLES
    ar,          \* the shared arena: header fields and memory
    th,          \* per thread: position inside its current allocator call, and locals
    calls,       \* history: the allocator calls that have returned
    published,   \* history: id -> row, as it was when an allocator returned the id
    pre,         \* history: the rows valid when the first growth began
    sq,          \* the submission ring
    cq,          \* the completion ring
    pr,          \* the ring's producer: position inside its enqueue call, and locals
    co,          \* the ring's consumer: position inside its dequeue call, and locals
    enq,         \* history: payloads of the enqueues that claimed a slot, in order
    deq,         \* history: payloads the dequeues returned, in order
    wk,          \* the worker: position inside workerLoop, and locals
    hist,        \* history: what the host submitted and pulled, what the worker did
    last         \* history: the last direct call of reduce / arenaKernelStep

arenaVars == <<ar, th, calls, published, pre>>
ringVars == <<sq, cq, pr, co, enq, deq>>
workerVars == <<wk, hist>>
vars == <<ar, th, calls, published, pre, sq, cq, pr, co, enq, deq, wk, hist, last>>

\* --------------------------------------------------------------------------
\* The arena under concurrent allocators (SpecArena)
\* --------------------------------------------------------------------------
NoLocals ==
    [old_cap |-> 0, old_offset_kind |-> 0, old_offset_sym |-> 0, old_offset_left |-> 0,
     old_offset_right |-> 0, old_offset_hash |-> 0, old_offset_next |-> 0,
     old_offset_term_cache |-> 0, old_top |-> 0, new_cap |-> 0, count |-> 0]

Idle(n) ==
    [pc |-> "idle", op |-> "none", ops |-> n, l |-> 0, r |-> 0, sym |-> 0, kind |-> 0,
     hl |-> 0, hval |-> 0, b |-> 0, buckets |-> 0, next |-> 0, id |-> 0, head |-> 0,
     ret |-> "idle", g |-> NoLocals, conc |-> FALSE, absent |-> FALSE, afterGrow |-> FALSE,
     seq |-> 0, own |-> EMPTY, snap |-> <<>>]

\* threads are interchangeable: the first is the one that makes the most calls
MayCall(t) == th[t].pc = "idle" /\ th[t].ops < (IF t = 1 THEN MaxOps ELSE MaxOps - 1)

Row(a, i) == <<KindAt(a, i), SymAt(a, i), LeftAt(a, i), RightAt(a, i), HashAt(a, i)>>

\* a fixed single-threaded start-up sequence, calls i+1..n of it applied to `a`:
\* S, I, then the applications (0 1), (1 2), (2 3), ...
PrefillCall(a, i, n) ==
    IF Poisoned(a) \/ i >= n THEN a
    ELSE IF i = 0 THEN allocTerminal(a, SYM_S).a
    ELSE IF i = 1 THEN allocTerminal(a, SYM_I).a
    ELSE allocCons(a, i - 2, i - 1).a

\* calls i..j-1
RECURSIVE PrefillCalls(_, _, _, _)
PrefillCalls(a, i, j, n) ==
    IF i >= j THEN a
    ELSE The({PrefillCalls(b, i + 1, j, n) : b \in {PrefillCall(a, i, n)}})

RECURSIVE PrefillFrom(_, _, _)
PrefillFrom(a, i, n) ==
    IF Poisoned(a) \/ i >= n THEN a
    ELSE The({PrefillFrom(b, i + 8, n) : b \in {PrefillCalls(a, i, i + 8, n)}})

Prefill(capacity, n) == PrefillFrom(init_header(capacity), 0, n)

\* <<capacity given to initArena, calls made before the threads start>>
InitShapes == {<<2 * MIN_CAP, 2>>, <<MAX_CAP, MAX_CAP - 1>>}

\* the arena after one of the start-up sequences, every thread idle
ArenaStart(shapes, threads) ==
    /\ \E sh \in shapes :
         /\ initArenaOk(sh[1])
         /\ ar = Prefill(sh[1], sh[2])
         /\ published = [i \in 0..(sh[2] - 1) |-> Row(ar, i)]
    /\ th = [t \in threads |-> Idle(0)]
    /\ calls = {}
    /\ sq = init_at(RING_ENTRIES, Sqe(0, 0, 0))
    /\ cq = init_at(RING_ENTRIES, Cqe(0, 0))
    /\ pr = 0 /\ co = 0 /\ enq = <<>> /\ deq = <<>>
    /\ wk = 0 /\ hist = 0 /\ last = 0
    /\ pre = [taken |-> FALSE, done |-> FALSE, by |-> 0, rows |-> <<>>, after |-> <<>>]

InitArena == ArenaStart(InitShapes, Threads)

\* an Application row with these children exists
HasCons(a, l, r) ==
    \E i \in 0..(a.capacity - 1) :
        KindAt(a, i) = NonTerm /\ LeftAt(a, i) = l /\ RightAt(a, i) = r

\* a call of thread record `me` returns `id`: log it, and remember the row of a
\* Terminal or Application the first time its id is returned
Return(t, me, a, id) ==
    /\ th' = [th EXCEPT ![t] = Idle(me.ops + 1)]
    /\ calls' = calls \cup {[t |-> t, n |-> me.ops, op |-> me.op, l |-> me.l, r |-> me.r,
                             sym |-> me.sym, id |-> id, conc |-> me.conc,
                             absent |-> me.absent, afterGrow |-> me.afterGrow,
                             own |-> me.own]}
    /\ published' =
         IF /\ me.op \in {"term", "cons"}
            /\ id # EMPTY
            /\ id \notin DOMAIN published
            /\ Stable(a)
            /\ ULt(id, a.capacity)
            /\ KindAt(a, id) \in {Terminal, NonTerm}
         THEN [i \in DOMAIN published \cup {id} |->
                 IF i = id THEN Row(a, id) ELSE published[i]]
         ELSE published
    /\ UNCHANGED <<ringVars, workerVars, last>>

Keep == UNCHANGED <<calls, published, ringVars, workerVars, last>>

\* ---- allocTerminal -------------------------------------------------------
AllocTerminal_Call(t, sym) ==
    /\ MayCall(t)
    /\ UNCHANGED <<ar, pre>>
    /\ LET me == [th[t] EXCEPT !.op = "term", !.sym = sym, !.afterGrow = pre.done]
       IN IF ULt(sym, TERM_CACHE_LEN) /\ TermCacheAt(ar, sym) # EMPTY
          THEN Return(t, me, ar, TermCacheAt(ar, sym))
          ELSE th' = [th EXCEPT ![t] = [me EXCEPT !.pc = "at_wait"]] /\ Keep

\* wait_resize_stable, shared by the three allocators
WaitStable(t, from, to) ==
    /\ th[t].pc = from
    /\ Poisoned(ar) \/ Stable(ar)
    /\ th' = [th EXCEPT ![t].pc = IF Poisoned(ar) THEN "trap" ELSE to]
    /\ UNCHANGED <<ar, pre>> /\ Keep

AllocTerminal_Wait(t) == WaitStable(t, "at_wait", "at_bump")

\* `if id >= h.capacity { grow(); continue; }`: a load of the header's capacity
\* after the fetch_add; past it the call stores the row `id` (own)
CapCheck(t, from, to, retry) ==
    /\ th[t].pc = from
    /\ th' = [th EXCEPT ![t].pc = IF UGe(th[t].id, ar.capacity) THEN "gr_enter" ELSE to,
                        ![t].own = IF UGe(th[t].id, ar.capacity) THEN EMPTY ELSE th[t].id,
                        ![t].ret = retry]
    /\ UNCHANGED <<ar, pre>> /\ Keep

\* top.fetch_add(1)
AllocTerminal_Bump(t) ==
    /\ th[t].pc = "at_bump"
    /\ ar' = [ar EXCEPT !.top = WInc(ar.top)]
    /\ th' = [th EXCEPT ![t].id = ar.top, ![t].pc = "at_cap"]
    /\ UNCHANGED pre /\ Keep

AllocTerminal_Cap(t) == CapCheck(t, "at_cap", "at_kind", "at_wait")

AllocTerminal_Kind(t) ==
    /\ th[t].pc = "at_kind"
    /\ ar' = [ar EXCEPT !.mem = Store8(ar.mem, kind_ptr(ar, th[t].id), Terminal)]
    /\ th' = [th EXCEPT ![t].pc = "at_rest"]
    /\ UNCHANGED pre /\ Keep

AllocTerminal_Rest(t) ==
    /\ th[t].pc = "at_rest"
    /\ LET id == th[t].id
           sym == th[t].sym
           m1 == Store8(ar.mem, sym_ptr(ar, id), sym % TwoTo8)
           m2 == Store32(m1, hash_ptr(ar, id), sym)
           m3 == IF ULt(sym, TERM_CACHE_LEN)
                 THEN Store32(m2, term_cache_ptr(ar, sym), id) ELSE m2
           a2 == [ar EXCEPT !.mem = m3]
       IN ar' = a2 /\ Return(t, th[t], a2, id)
    /\ UNCHANGED pre

\* ---- allocCons -----------------------------------------------------------
InCons(u) == th[u].op = "cons" /\ th[u].pc \notin {"idle", "trap", "hang"}

AllocCons_Call(t, l, r) ==
    /\ MayCall(t)
    /\ LET same == {u \in Threads \ {t} : InCons(u) /\ th[u].l = l /\ th[u].r = r}
       IN th' = [u \in Threads |->
                   IF u = t
                   THEN [th[t] EXCEPT !.pc = "ac_hl", !.op = "cons", !.l = l, !.r = r,
                                      !.conc = same # {}, !.absent = ~HasCons(ar, l, r),
                                      !.afterGrow = pre.done]
                   ELSE IF u \in same THEN [th[u] EXCEPT !.conc = TRUE]
                   ELSE th[u]]
    /\ UNCHANGED <<ar, pre>> /\ Keep

\* enter_stable, bounds check, load of the child's hash, check_stable
AllocCons_HashL(t) ==
    /\ th[t].pc = "ac_hl"
    /\ Poisoned(ar) \/ Stable(ar)
    /\ UNCHANGED <<ar, pre>>
    /\ IF Poisoned(ar) THEN th' = [th EXCEPT ![t].pc = "trap"] /\ Keep
       ELSE IF UGe(th[t].l, ar.capacity) THEN Return(t, th[t], ar, EMPTY)
       ELSE th' = [th EXCEPT ![t].hl = HashAt(ar, th[t].l), ![t].pc = "ac_hr"] /\ Keep

AllocCons_HashR(t) ==
    /\ th[t].pc = "ac_hr"
    /\ Poisoned(ar) \/ Stable(ar)
    /\ UNCHANGED <<ar, pre>>
    /\ IF Poisoned(ar) THEN th' = [th EXCEPT ![t].pc = "trap"] /\ Keep
       ELSE IF UGe(th[t].r, ar.capacity) THEN Return(t, th[t], ar, EMPTY)
       ELSE th' = [th EXCEPT ![t].hval = mix(th[t].hl, HashAt(ar, th[t].r)),
                             ![t].pc = "ac_lookup"] /\ Keep

\* the bucket walk under the seqlock
AllocCons_Lookup(t) ==
    /\ th[t].pc = "ac_lookup"
    /\ Poisoned(ar) \/ Stable(ar)
    /\ UNCHANGED <<ar, pre>>
    /\ IF Poisoned(ar) THEN th' = [th EXCEPT ![t].pc = "trap"] /\ Keep
       ELSE LET w == Lookup(ar, th[t].hval, th[t].l, th[t].r)
            IN IF w.hang THEN th' = [th EXCEPT ![t].pc = "hang"] /\ Keep
               ELSE IF w.id # EMPTY THEN Return(t, th[t], ar, w.id)
               ELSE th' = [th EXCEPT ![t].pc = "ac_wait"] /\ Keep

AllocCons_Wait(t) == WaitStable(t, "ac_wait", "ac_bump")

\* the bucket pointer and index are taken before the bump
AllocCons_Bump(t) ==
    /\ th[t].pc = "ac_bump"
    /\ ar' = [ar EXCEPT !.top = WInc(ar.top)]
    /\ th' = [th EXCEPT ![t].buckets = ar.offset_buckets,
                        ![t].b = AndMask(th[t].hval, ar.bucket_mask),
                        ![t].id = ar.top,
                        ![t].pc = "ac_cap"]
    /\ UNCHANGED pre /\ Keep

AllocCons_Cap(t) == CapCheck(t, "ac_cap", "ac_kind", "ac_wait")

AllocCons_Kind(t) ==
    /\ th[t].pc = "ac_kind"
    /\ ar' = [ar EXCEPT !.mem = Store8(ar.mem, kind_ptr(ar, th[t].id), NonTerm)]
    /\ th' = [th EXCEPT ![t].pc = "ac_rest"]
    /\ UNCHANGED pre /\ Keep

AllocCons_Rest(t) ==
    /\ th[t].pc = "ac_rest"
    /\ LET id == th[t].id
           m1 == Store32(ar.mem, left_ptr(ar, id), th[t].l)
           m2 == Store32(m1, right_ptr(ar, id), th[t].r)
           m3 == Store32(m2, hash_ptr(ar, id), th[t].hval)
       IN ar' = [ar EXCEPT !.mem = m3]
    /\ th' = [th EXCEPT ![t].next = ar.offset_next_idx, ![t].pc = "ac_head"]
    /\ UNCHANGED pre /\ Keep

BucketAddr(me) == COL_BASE + me.buckets + 4 * me.b
NextAddr(me, i) == COL_BASE + me.next + 4 * i

AllocCons_Head(t) ==
    /\ th[t].pc = "ac_head"
    /\ LET head == Load32(ar.mem, BucketAddr(th[t]))
       IN /\ ar' = [ar EXCEPT !.mem = Store32(ar.mem, NextAddr(th[t], th[t].id), head)]
          /\ th' = [th EXCEPT ![t].head = head, ![t].pc = "ac_cas"]
    /\ UNCHANGED pre /\ Keep

AllocCons_Cas(t) ==
    /\ th[t].pc = "ac_cas"
    /\ UNCHANGED pre
    /\ IF Load32(ar.mem, BucketAddr(th[t])) = th[t].head
       THEN LET a2 == [ar EXCEPT !.mem = Store32(ar.mem, BucketAddr(th[t]), th[t].id)]
            IN ar' = a2 /\ Return(t, th[t], a2, th[t].id)
       ELSE ar' = ar /\ th' = [th EXCEPT ![t].pc = "ac_rewalk"] /\ Keep

\* The walk after a lost CAS (lines 1238-1256): no bounds check on cur2, the
\* `next` pointer is the one taken at line 1226.  A read outside the memory
\* traps; a chain longer than the arena has rows is cyclic (hang).
RECURSIVE Rewalk(_, _, _, _)
Rewalk(a, me, cur2, fuel) ==
    IF cur2 = EMPTY THEN [id |-> EMPTY, out |-> "none"]
    ELSE IF cur2 < 0 \/ cur2 >= MemSize(a.mem)
            \/ ~InMem(a.mem, kind_ptr(a, cur2), 1)
            \/ ~InMem(a.mem, NextAddr(me, cur2), 4)
            \/ ~InMem(a.mem, hash_ptr(a, cur2), 4)
            \/ ~InMem(a.mem, left_ptr(a, cur2), 4)
            \/ ~InMem(a.mem, right_ptr(a, cur2), 4)
         THEN [id |-> EMPTY, out |-> "trap"]
    ELSE IF fuel = 0 THEN [id |-> EMPTY, out |-> "hang"]
    ELSE IF KindAt(a, cur2) = NonTerm /\ HashAt(a, cur2) = me.hval
            /\ LeftAt(a, cur2) = me.l /\ RightAt(a, cur2) = me.r
         THEN [id |-> cur2, out |-> "found"]
    ELSE Rewalk(a, me, Load32(a.mem, NextAddr(me, cur2)), fuel - 1)

AllocCons_Rewalk(t) ==
    /\ th[t].pc = "ac_rewalk"
    /\ UNCHANGED pre
    /\ LET w == Rewalk(ar, th[t], Load32(ar.mem, BucketAddr(th[t])), ar.capacity)
       IN IF w.out = "found"
          THEN LET a2 == [ar EXCEPT !.mem = Store8(ar.mem, kind_ptr(ar, th[t].id), 0)]
               IN ar' = a2 /\ Return(t, th[t], a2, w.id)
          ELSE /\ ar' = ar /\ Keep
               /\ th' = [th EXCEPT ![t].pc = IF w.out = "none" THEN "ac_head" ELSE w.out]

\* ---- alloc_generic (as alloc_continuation(EMPTY, 0, STAGE_LEFT)) ------------
AllocGeneric_Call(t) ==
    /\ MayCall(t)
    /\ th' = [th EXCEPT ![t].pc = "ag_wait", ![t].op = "generic", ![t].kind = Continuation,
                        ![t].sym = STAGE_LEFT, ![t].l = EMPTY, ![t].r = 0,
                        ![t].afterGrow = pre.done]
    /\ UNCHANGED <<ar, pre>> /\ Keep

AllocGeneric_Wait(t) == WaitStable(t, "ag_wait", "ag_bump")

AllocGeneric_Bump(t) ==
    /\ th[t].pc = "ag_bump"
    /\ ar' = [ar EXCEPT !.top = WInc(ar.top)]
    /\ th' = [th EXCEPT ![t].id = ar.top, ![t].pc = "ag_cap"]
    /\ UNCHANGED pre /\ Keep

AllocGeneric_Cap(t) == CapCheck(t, "ag_cap", "ag_payload", "ag_wait")

AllocGeneric_Payload(t) ==
    /\ th[t].pc = "ag_payload"
    /\ LET id == th[t].id
           m1 == Store8(ar.mem, sym_ptr(ar, id), th[t].sym)
           m2 == Store32(m1, left_ptr(ar, id), th[t].l)
           m3 == Store32(m2, right_ptr(ar, id), th[t].r)
           m4 == Store32(m3, hash_ptr(ar, id), 0)
       IN ar' = [ar EXCEPT !.mem = m4]
    /\ th' = [th EXCEPT ![t].pc = "ag_kind"]
    /\ UNCHANGED pre /\ Keep

AllocGeneric_Kind(t) ==
    /\ th[t].pc = "ag_kind"
    /\ LET a2 == [ar EXCEPT !.mem = Store8(ar.mem, kind_ptr(ar, th[t].id), th[t].kind)]
       IN ar' = a2 /\ Return(t, th[t], a2, th[t].id)
    /\ UNCHANGED pre

\* ---- grow, called by an allocator whose id was past the capacity -----------
\* the even -> odd CAS on resize_seq, and the reads of the old header and top
Grow_Enter(t) ==
    /\ th[t].pc = "gr_enter"
    /\ ar.resize_seq % 2 = 0
    /\ ar' = [ar EXCEPT !.resize_seq = ar.resize_seq + 1]
    /\ th' = [th EXCEPT ![t].g = GrowLocals(ar), ![t].seq = ar.resize_seq,
                        ![t].pc = "gr_header"]
    /\ pre' = IF pre.taken THEN pre
              ELSE [taken |-> TRUE, done |-> FALSE, by |-> t,
                    rows |-> [i \in DOMAIN published |-> Row(ar, i)], after |-> <<>>]
    /\ Keep

\* ceiling check, memory.grow (the host may refuse), header update, top.store(count)
Grow_Header(t) ==
    /\ th[t].pc = "gr_header"
    /\ \E granted \in BOOLEAN :
         IF GrowAtCeiling(th[t].g) \/ (GrowPagesNeeded(ar, th[t].g) > 0 /\ ~granted)
         THEN ar' = GrowPoison(ar) /\ th' = [th EXCEPT ![t].pc = "trap"]
         ELSE ar' = GrowHeader(ar, th[t].g) /\ th' = [th EXCEPT ![t].pc = "gr_copy"]
    /\ UNCHANGED pre /\ Keep

Grow_Copy(t) ==
    /\ th[t].pc = "gr_copy"
    /\ ar' = GrowCopy(ar, th[t].g)
    /\ th' = [th EXCEPT ![t].pc = "gr_rebuild"]
    /\ UNCHANGED pre /\ Keep

Grow_Rebuild(t) ==
    /\ th[t].pc = "gr_rebuild"
    /\ ar' = GrowRebuild(ar, th[t].g)
    /\ th' = [th EXCEPT ![t].pc = "gr_release"]
    /\ UNCHANGED pre /\ Keep

Grow_Release(t) ==
    /\ th[t].pc = "gr_release"
    /\ ar' = GrowRelease(ar)
    /\ th' = [th EXCEPT ![t].pc = th[t].ret, ![t].g = NoLocals]
    /\ pre' = IF pre.taken /\ ~pre.done /\ pre.by = t
              THEN [pre EXCEPT !.done = TRUE,
                               !.after = [i \in DOMAIN pre.rows |-> Row(ar, i)]]
              ELSE pre
    /\ Keep

TermSyms == {SYM_K}

NextArena ==
    \E t \in Threads :
        \/ \E sym \in TermSyms : AllocTerminal_Call(t, sym)
        \/ AllocTerminal_Wait(t)
        \/ AllocTerminal_Bump(t)
        \/ AllocTerminal_Cap(t)
        \/ AllocTerminal_Kind(t)
        \/ AllocTerminal_Rest(t)
        \/ \E l \in 0..MaxArg, r \in 0..MaxArg : AllocCons_Call(t, l, r)
        \/ AllocCons_HashL(t)
        \/ AllocCons_HashR(t)
        \/ AllocCons_Lookup(t)
        \/ AllocCons_Wait(t)
        \/ AllocCons_Bump(t)
        \/ AllocCons_Cap(t)
        \/ AllocCons_Kind(t)
        \/ AllocCons_Rest(t)
        \/ AllocCons_Head(t)
        \/ AllocCons_Cas(t)
        \/ AllocCons_Rewalk(t)
        \/ AllocGeneric_Call(t)
        \/ AllocGeneric_Wait(t)
        \/ AllocGeneric_Bump(t)
        \/ AllocGeneric_Cap(t)
        \/ AllocGeneric_Payload(t)
        \/ AllocGeneric_Kind(t)
        \/ Grow_Enter(t)
        \/ Grow_Header(t)
        \/ Grow_Copy(t)
        \/ Grow_Rebuild(t)
        \/ Grow_Release(t)

SpecArena == InitArena /\ [][NextArena]_vars

\* --------------------------------------------------------------------------
\* Properties of the arena under concurrent allocators
\* --------------------------------------------------------------------------
Quiescent == \A t \in Threads : th[t].pc = "idle"

\* the ids allocators have returned that are Application rows now
Applications == {i \in DOMAIN published : KindAt(ar, i) = NonTerm}

\* C1: hash-consing uniqueness.  No two distinct ids returned by the allocators
\* are Application rows with the same (left, right) pair.  Stated where no call
\* is in progress, so that a row on its way to becoming a hole does not count.
HashConsUnique ==
    (Quiescent /\ Stable(ar)) =>
        \A i \in Applications, j \in Applications :
            (LeftAt(ar, i) = LeftAt(ar, j) /\ RightAt(ar, i) = RightAt(ar, j)) => i = j

\* C2: two threads that call allocCons concurrently for the same pair, absent
\* from the arena when each call began, get the same id, and once both have
\* returned at most one Application row holds that pair.
ConcurrentConsSameId ==
    \A c \in calls, d \in calls :
        (/\ c.op = "cons" /\ d.op = "cons" /\ c.t # d.t
         /\ c.l = d.l /\ c.r = d.r
         /\ c.conc /\ d.conc /\ c.absent /\ d.absent)
        => /\ c.id = d.id
           /\ (Quiescent /\ Stable(ar)) =>
                Cardinality({i \in 0..(ar.capacity - 1) :
                    KindAt(ar, i) = NonTerm /\ LeftAt(ar, i) = c.l
                    /\ RightAt(ar, i) = c.r}) <= 1

KSLR(row) == <<row[1], row[2], row[3], row[4]>>

\* C9: growth preservation.  When a growth has completed, every id returned
\* before it began has the kind, symbol, left and right it had then; and an
\* allocCons call begun after the growth, for a pair that one Application
\* returned before the growth held, returns that Application's id.
GrowthPreserves ==
    pre.done =>
        /\ \A i \in DOMAIN pre.rows : KSLR(pre.after[i]) = KSLR(pre.rows[i])
        /\ \A c \in calls :
             (c.op = "cons" /\ c.afterGrow) =>
                LET olds == {i \in DOMAIN pre.rows :
                                /\ pre.rows[i][1] = NonTerm
                                /\ pre.rows[i][3] = c.l /\ pre.rows[i][4] = c.r}
                IN \A i \in olds : Cardinality(olds) = 1 => c.id = i

\* C10: published-node immutability.  The kind, sym, left, right and hash of a
\* Terminal or Application id an allocator has returned are, whenever the arena
\* can be read (no growth in progress), what they were when it was returned.
PublishedImmutable ==
    Stable(ar) => \A i \in DOMAIN published : Row(ar, i) = published[i]

\* C11: accessor round trip.  Once allocCons(l, r) has returned an id, and
\* whenever the accessors can read the arena (no growth in progress, not
\* poisoned), kindOf(id) is Application, leftOf(id) = l and rightOf(id) = r.
ConsRoundTrip ==
    Stable(ar) =>
        \A c \in calls :
            (c.op = "cons" /\ c.id # EMPTY) =>
                /\ kindOf(ar, c.id) = NonTerm
                /\ leftOf(ar, c.id) = c.l
                /\ rightOf(ar, c.id) = c.r

\* C12: terminal caching.  Any two returned calls of allocTerminal for the
\* same symbol among S, K, I return the same id.
TerminalCached ==
    \A c \in calls, d \in calls :
        (/\ c.op = "term" /\ d.op = "term"
         /\ c.sym = d.sym /\ c.sym \in {SYM_S, SYM_K, SYM_I}
         /\ c.id # EMPTY /\ d.id # EMPTY)
        => c.id = d.id

\* the ids on the chain that starts at cur, following next links while they stay
\* below the capacity (at most `fuel` of them)
RECURSIVE ChainFrom(_, _, _)
ChainFrom(a, cur, fuel) ==
    IF cur = EMPTY \/ UGe(cur, a.capacity) \/ fuel = 0 THEN {}
    ELSE {cur} \cup ChainFrom(a, NextAt(a, cur), fuel - 1)

BucketChain(a, b) == ChainFrom(a, BucketAt(a, b), a.capacity)

\* every id the hash-cons index holds
Indexed(a) == UNION {BucketChain(a, b) : b \in 0..a.bucket_mask}

\* C31: whenever the index can be read (no growth in progress), every id
\* reachable from a bucket head through next links is an Application row: no
\* Continuation, Suspension or hole is linked; and allocCons never returns the id
\* of a row that is no Application.
IndexHoldsApplications ==
    /\ [](Stable(ar) => \A i \in Indexed(ar) : KindAt(ar, i) = NonTerm)
    /\ [][\A c \in calls' \ calls :
            (c.op = "cons" /\ c.id # EMPTY /\ Stable(ar')) => kindOf(ar', c.id) = NonTerm]_vars

\* row i carries the hash of its children and is on the chain of its bucket
InIndex(a, i) ==
    /\ HashAt(a, i) = mix(HashAt(a, LeftAt(a, i)), HashAt(a, RightAt(a, i)))
    /\ i \in BucketChain(a, AndMask(HashAt(a, i), a.bucket_mask))

\* C32: whenever resize_seq is even and no allocator call is in progress, every
\* Application id an allocCons call has returned has hash = mix(hash[left],
\* hash[right]) and is reachable through the chain of bucket hash & bucket_mask,
\* also after a growth has rebuilt the buckets with the new mask.
ReturnedConsIndexed ==
    (Quiescent /\ Stable(ar)) =>
        \A c \in calls :
            (c.op = "cons" /\ c.id # EMPTY /\ kindOf(ar, c.id) = NonTerm) => InIndex(ar, c.id)

\* thread t's growth writes the new header in this step
GrowthDone(t) == th[t].pc = "gr_header" /\ th'[t].pc = "gr_copy"

\* C36: in every state of an arena made by initArena the capacity is a power of
\* two between MIN_CAP and MAX_CAP and bucket_mask = capacity - 1; only grow
\* changes the capacity, and every growth that goes through sets it to exactly
\* twice the value it had, never above MAX_CAP.
CapacityDoubles ==
    /\ [](/\ is_power_of_two(ar.capacity)
          /\ ar.capacity >= MIN_CAP /\ ar.capacity <= MAX_CAP
          /\ ar.bucket_mask = ar.capacity - 1)
    /\ [][/\ ar'.capacity # ar.capacity => \E t \in Threads : GrowthDone(t)
          /\ \A t \in Threads : GrowthDone(t) => ar'.capacity = 2 * ar.capacity]_vars

\* the walk from cur along the next links comes to EMPTY (or leaves the
\* capacity, where the lookup stops) within `fuel` rows
RECURSIVE ChainEnds(_, _, _)
ChainEnds(a, cur, fuel) ==
    IF cur = EMPTY \/ UGe(cur, a.capacity) THEN TRUE
    ELSE IF fuel = 0 THEN FALSE
    ELSE ChainEnds(a, NextAt(a, cur), fuel - 1)

\* C40: every allocCons call comes to an end when the growths complete: whenever
\* resize_seq is even, the next links from every bucket head form a chain
\* without a cycle, no longer than the capacity, so that the bucket walks of the
\* lookup, of the re-walk after a lost CAS and of the rehash end.
ChainsAcyclic ==
    Stable(ar) => \A b \in 0..ar.bucket_mask : ChainEnds(ar, BucketAt(ar, b), ar.capacity)

\* --------------------------------------------------------------------------
\* One ring, one producer, one consumer (SpecRing): every load, CAS and store
\* of try_enqueue / try_dequeue is a step; the blocking calls wrap them.
\* --------------------------------------------------------------------------
MaxRingCalls == 3
\* complete laps the ring has made before the run (the positions are u32 and wrap)
RingLaps == {0, I32_MAX}

ProdIdle(n) == [pc |-> "idle", blocking |-> FALSE, second |-> FALSE, n |-> n,
                item |-> Sqe(0, 0, 0), t |-> 0, v |-> 0, ok |-> FALSE]
ConsIdle(n) == [pc |-> "idle", blocking |-> FALSE, second |-> FALSE, n |-> n,
                item |-> Sqe(0, 0, 0), h |-> 0, v |-> 0, ok |-> FALSE]

InitRing ==
    /\ \E laps \in RingLaps : sq = RingAfter(laps, Sqe(0, 0, 0))
    /\ cq = init_at(RING_ENTRIES, Cqe(0, 0))
    /\ pr = ProdIdle(0) /\ co = ConsIdle(0)
    /\ enq = <<>> /\ deq = <<>>
    /\ ar = init_header(MIN_CAP)
    /\ th = 0 /\ calls = {} /\ published = <<>> /\ pre = 0
    /\ wk = 0 /\ hist = 0 /\ last = 0

RingRest == UNCHANGED <<arenaVars, cq, workerVars, last>>

\* ---- producer: try_enqueue, enqueue_blocking --------------------------------
Prod_Call(blocking) ==
    /\ pr.pc = "idle" /\ pr.n < MaxRingCalls
    /\ pr' = [pr EXCEPT !.pc = "load_tail", !.blocking = blocking, !.second = FALSE,
                        !.item = Sqe(pr.n + 1, pr.n + 1, 0)]
    /\ UNCHANGED <<sq, co, enq, deq>> /\ RingRest

Prod_LoadTail ==
    /\ pr.pc = "load_tail"
    /\ pr' = [pr EXCEPT !.t = sq.tail, !.pc = "load_seq"]
    /\ UNCHANGED <<sq, co, enq, deq>> /\ RingRest

Prod_LoadSeqNoFull ==
    /\ pr.pc = "load_seq"
    /\ LET diff == WSub(sq.seq[slot_at(sq, pr.t)], pr.t)
       IN pr' = IF diff <= 0 THEN [pr EXCEPT !.pc = "cas"]
                ELSE [pr EXCEPT !.pc = "load_tail"]
    /\ UNCHANGED <<sq, co, enq, deq>> /\ RingRest

\* slot.seq.load; diff == 0: go to the CAS; diff < 0: full; otherwise retry
Prod_LoadSeq ==
    /\ pr.pc = "load_seq"
    /\ LET diff == WSub(sq.seq[slot_at(sq, pr.t)], pr.t)
       IN pr' = IF diff = 0 THEN [pr EXCEPT !.pc = "cas"]
                ELSE IF diff > 0 THEN [pr EXCEPT !.pc = "load_tail"]
                ELSE IF ~pr.blocking THEN ProdIdle(pr.n + 1)
                ELSE IF pr.second THEN [pr EXCEPT !.pc = "wait"]
                ELSE [pr EXCEPT !.pc = "load_not_full"]
    /\ UNCHANGED <<sq, co, enq, deq>> /\ RingRest

\* compare_exchange_weak on tail (it may fail spuriously); the slot is claimed
Prod_Cas ==
    /\ pr.pc = "cas"
    /\ \E spurious \in BOOLEAN :
         IF sq.tail = pr.t /\ ~spurious
         THEN /\ sq' = [sq EXCEPT !.tail = WInc(pr.t)]
              /\ pr' = [pr EXCEPT !.pc = "payload"]
              /\ enq' = Append(enq, pr.item)
         ELSE /\ pr' = [pr EXCEPT !.pc = "load_tail"]
              /\ UNCHANGED <<sq, enq>>
    /\ UNCHANGED <<co, deq>> /\ RingRest

Prod_Payload ==
    /\ pr.pc = "payload"
    /\ sq' = [sq EXCEPT !.payload[slot_at(sq, pr.t)] = pr.item]
    /\ pr' = [pr EXCEPT !.pc = "seq"]
    /\ UNCHANGED <<co, enq, deq>> /\ RingRest

Prod_Seq ==
    /\ pr.pc = "seq"
    /\ sq' = [sq EXCEPT !.seq[slot_at(sq, pr.t)] = WInc(pr.t)]
    /\ pr' = [pr EXCEPT !.pc = "notify"]
    /\ UNCHANGED <<co, enq, deq>> /\ RingRest

Prod_NotifyNoBump ==
    /\ pr.pc = "notify"
    /\ pr' = [ProdIdle(pr.n + 1) EXCEPT !.ok = TRUE]
    /\ UNCHANGED <<sq, co, enq, deq>> /\ RingRest

\* not_empty.fetch_add(1), notify, return true
Prod_Notify ==
    /\ pr.pc = "notify"
    /\ sq' = [sq EXCEPT !.not_empty = WInc(sq.not_empty)]
    /\ pr' = [ProdIdle(pr.n + 1) EXCEPT !.ok = TRUE]
    /\ UNCHANGED <<co, enq, deq>> /\ RingRest

\* enqueue_blocking after a failed try: v = not_full.load, then the second try
Prod_LoadNotFull ==
    /\ pr.pc = "load_not_full"
    /\ pr' = [pr EXCEPT !.v = sq.not_full, !.second = TRUE, !.pc = "load_tail"]
    /\ UNCHANGED <<sq, co, enq, deq>> /\ RingRest

\* wait32(&not_full, v) returns once the word differs from v
Prod_Wait ==
    /\ pr.pc = "wait"
    /\ sq.not_full # pr.v
    /\ pr' = [pr EXCEPT !.second = FALSE, !.pc = "load_tail"]
    /\ UNCHANGED <<sq, co, enq, deq>> /\ RingRest

\* ---- consumer: try_dequeue, dequeue_blocking --------------------------------
Cons_Call(blocking) ==
    /\ co.pc = "idle" /\ co.n < MaxRingCalls
    /\ co' = [co EXCEPT !.pc = "load_head", !.blocking = blocking, !.second = FALSE]
    /\ UNCHANGED <<sq, pr, enq, deq>> /\ RingRest

Cons_LoadHead ==
    /\ co.pc = "load_head"
    /\ co' = [co EXCEPT !.h = sq.head, !.pc = "load_seq"]
    /\ UNCHANGED <<sq, pr, enq, deq>> /\ RingRest

Cons_LoadSeq ==
    /\ co.pc = "load_seq"
    /\ LET diff == WSub(sq.seq[slot_at(sq, co.h)], WInc(co.h))
       IN co' = IF diff = 0 THEN [co EXCEPT !.pc = "cas"]
                ELSE IF diff > 0 THEN [co EXCEPT !.pc = "load_head"]
                ELSE IF ~co.blocking THEN ConsIdle(co.n + 1)
                ELSE IF co.second THEN [co EXCEPT !.pc = "wait"]
                ELSE [co EXCEPT !.pc = "load_not_empty"]
    /\ UNCHANGED <<sq, pr, enq, deq>> /\ RingRest

Cons_Cas ==
    /\ co.pc = "cas"
    /\ \E spurious \in BOOLEAN :
         IF sq.head = co.h /\ ~spurious
         THEN /\ sq' = [sq EXCEPT !.head = WInc(co.h)]
              /\ co' = [co EXCEPT !.pc = "payload"]
         ELSE /\ co' = [co EXCEPT !.pc = "load_head"]
              /\ UNCHANGED sq
    /\ UNCHANGED <<pr, enq, deq>> /\ RingRest

Cons_Payload ==
    /\ co.pc = "payload"
    /\ co' = [co EXCEPT !.item = sq.payload[slot_at(sq, co.h)], !.pc = "seq"]
    /\ UNCHANGED <<sq, pr, enq, deq>> /\ RingRest

\* slot.seq.store(h + mask + 1): the slot is free for the next lap
Cons_Seq ==
    /\ co.pc = "seq"
    /\ sq' = [sq EXCEPT !.seq[slot_at(sq, co.h)] = WInc(WAdd(co.h, sq.mask))]
    /\ co' = [co EXCEPT !.pc = "notify"]
    /\ UNCHANGED <<pr, enq, deq>> /\ RingRest

\* not_full.fetch_add(1), notify, return Some(item)
Cons_Notify ==
    /\ co.pc = "notify"
    /\ sq' = [sq EXCEPT !.not_full = WInc(sq.not_full)]
    /\ deq' = Append(deq, co.item)
    /\ co' = [ConsIdle(co.n + 1) EXCEPT !.ok = TRUE]
    /\ UNCHANGED <<pr, enq>> /\ RingRest

Cons_LoadNotEmpty ==
    /\ co.pc = "load_not_empty"
    /\ co' = [co EXCEPT !.v = sq.not_empty, !.second = TRUE, !.pc = "load_head"]
    /\ UNCHANGED <<sq, pr, enq, deq>> /\ RingRest

Cons_Wait ==
    /\ co.pc = "wait"
    /\ sq.not_empty # co.v
    /\ co' = [co EXCEPT !.second = FALSE, !.pc = "load_head"]
    /\ UNCHANGED <<sq, pr, enq, deq>> /\ RingRest

NextRing ==
    \/ \E blocking \in BOOLEAN : Prod_Call(blocking)
    \/ Prod_LoadTail
    \/ Prod_LoadSeq
    \/ Prod_Cas
    \/ Prod_Payload
    \/ Prod_Seq
    \/ Prod_Notify
    \/ Prod_LoadNotFull
    \/ Prod_Wait
    \/ \E blocking \in BOOLEAN : Cons_Call(blocking)
    \/ Cons_LoadHead
    \/ Cons_LoadSeq
    \/ Cons_Cas
    \/ Cons_Payload
    \/ Cons_Seq
    \/ Cons_Notify
    \/ Cons_LoadNotEmpty
    \/ Cons_Wait

SpecRing == InitRing /\ [][NextRing]_vars

IsPrefix(s, t) == Len(s) <= Len(t) /\ \A i \in 1..Len(s) : s[i] = t[i]

\* C3: ring SPSC order.  With one producer and one consumer, the payloads the
\* dequeues have returned are, in order, the first payloads the enqueues put in:
\* nothing lost, duplicated, reordered or altered.
RingFifo == IsPrefix(deq, enq)

\* every payload went in and came out, the ring's positions having wrapped from
\* the top of the 32-bit range to the bottom on the way
RingFifoWitness ==
    /\ Len(deq) = MaxRingCalls /\ deq = enq
    /\ deq[MaxRingCalls].req_id = MaxRingCalls
    /\ sq.head >= 0 /\ sq.head < MaxRingCalls
    /\ sq.tail = sq.head

\* entries whose slot the consumer has released / the producer has published /
\* the consumer has claimed / has read
Released == Len(deq) + (IF co.pc = "notify" THEN 1 ELSE 0)
Published == Len(enq) - (IF pr.pc \in {"payload", "seq"} THEN 1 ELSE 0)
Claimed == Len(deq) + (IF co.pc \in {"payload", "seq", "notify"} THEN 1 ELSE 0)
Read == Len(deq) + (IF co.pc \in {"seq", "notify"} THEN 1 ELSE 0)

\* C33: the entries enqueued whose slot the consumer has not released yet are
\* between 0 and the slot count, and each published entry the consumer has not
\* read is in its slot as it was enqueued; a try_enqueue that
\* finds the slot at tail not released by the consumer returns false and changes
\* nothing in the ring, and it returns false only then; a try_dequeue that finds no
\* published entry returns nothing and changes nothing.
RingBounded ==
    /\ [](/\ Len(enq) - Released \in 0..RING_ENTRIES
          /\ WSub(sq.tail, sq.head) \in 0..RING_ENTRIES
          /\ \A k \in (Read + 1)..Published :
                sq.payload[(k - 1) % RING_ENTRIES] = enq[k]
          /\ (pr.pc = "idle" /\ ~pr.ok) => \A k \in 1..Len(enq) : enq[k].req_id # pr.n)
    /\ [][/\ (pr.pc = "load_seq" /\ pr' # pr /\ ~pr.blocking) =>
               IF Len(enq) - Released = RING_ENTRIES
               THEN pr'.pc = "idle" /\ ~pr'.ok /\ sq' = sq /\ enq' = enq
               ELSE pr'.pc = "cas"
           /\ (co.pc = "load_seq" /\ co' # co /\ ~co.blocking /\ Published = Claimed) =>
               (co'.pc = "idle" /\ ~co'.ok /\ sq' = sq /\ deq' = deq)]_vars

\* a try_dequeue found the ring empty and returned nothing; later the producer
\* filled every slot, the tail wrapping to 0, and its next try_enqueue returned
\* false, the entries intact
RingBoundedWitness ==
    /\ pr.pc = "idle" /\ pr.n = RING_ENTRIES + 1 /\ ~pr.ok /\ ~pr.blocking
    /\ Len(enq) = RING_ENTRIES /\ Len(deq) = 0
    /\ co.pc = "idle" /\ co.n = 1 /\ ~co.ok
    /\ \A k \in 1..RING_ENTRIES : sq.payload[(k - 1) % RING_ENTRIES] = enq[k]
    /\ sq.tail = 0 /\ sq.head # 0

\* ---- the ring under fair scheduling: a thread inside a call keeps running, and
\* compare_exchange_weak does not fail spuriously for ever ----
ProdStep ==
    \/ Prod_LoadTail \/ Prod_LoadSeq \/ Prod_Payload \/ Prod_Seq \/ Prod_Notify
    \/ Prod_LoadNotFull \/ Prod_Wait
ConsStep ==
    \/ Cons_LoadHead \/ Cons_LoadSeq \/ Cons_Payload \/ Cons_Seq \/ Cons_Notify
    \/ Cons_LoadNotEmpty \/ Cons_Wait
ProdCasWins == Prod_Cas /\ pr'.pc = "payload"
ConsCasWins == Cons_Cas /\ co'.pc = "payload"

SpecRingFair ==
    /\ SpecRing
    /\ WF_vars(ProdStep) /\ SF_vars(ProdCasWins)
    /\ WF_vars(ConsStep) /\ SF_vars(ConsCasWins)

\* C34: no wake-up is lost.  A dequeue_blocking in progress while the ring holds
\* a published entry returns an entry, and an enqueue_blocking in progress while
\* a slot is free returns, however the other side's steps fall between the load
\* of the wait word, the second try and the wait; every enqueue that returned
\* true, blocking or not, put its item into the ring exactly once.
NoLostWakeup ==
    /\ (co.blocking /\ co.pc # "idle" /\ Published > Claimed) ~> (co.pc = "idle" /\ co.ok)
    /\ (pr.blocking /\ pr.pc # "idle" /\ Len(enq) - Released < RING_ENTRIES)
          ~> (pr.pc = "idle" /\ pr.ok)
    /\ [](/\ \A k \in 1..Len(enq), l \in 1..Len(enq) : enq[k] = enq[l] => k = l
          /\ (pr.pc = "idle" /\ pr.ok) => \E k \in 1..Len(enq) : enq[k].req_id = pr.n)

\* the consumer is suspended in wait32 on not_empty, the word still what it
\* sampled, while the producer has published an entry and not yet bumped the word
NoLostWakeupWitness ==
    /\ co.pc = "wait" /\ co.blocking /\ sq.not_empty = co.v
    /\ Published > Claimed
    /\ pr.pc = "notify"

\* the expression a node denotes: <<sym>> for a Terminal, a pair for an Application
RECURSIVE Tree(_, _)
Tree(a, n) ==
    IF kindOf(a, n) = NonTerm THEN <<Tree(a, leftOf(a, n)), Tree(a, rightOf(a, n))>>
    ELSE IF kindOf(a, n) = Terminal THEN <<symOf(a, n)>>
    ELSE <<kindOf(a, n), n, 0>>

\* the expression t put back under the frames of `stack`, innermost frame first
RECURSIVE Plug(_, _, _)
Plug(a, t, stack) ==
    IF stack = EMPTY THEN t
    ELSE IF symOf(a, stack) = STAGE_LEFT
    THEN Plug(a, <<t, Tree(a, rightOf(a, rightOf(a, stack)))>>, leftOf(a, stack))
    ELSE Plug(a, <<Tree(a, leftOf(a, rightOf(a, stack))), t>>, leftOf(a, stack))

\* what a Suspension captured, as expressions: the current node, the frames of the
\* stack around a hole, the mode and the remaining steps
Hole == <<EMPTY>>
Captured(a, susp) ==
    <<Tree(a, leftOf(a, susp)), Plug(a, Hole, rightOf(a, susp)), symOf(a, susp),
      hash_of_internal(a, susp)>>

\* --------------------------------------------------------------------------
\* The reducer called by one thread (SpecReduce)
\* --------------------------------------------------------------------------
MaxReduceCalls == 2
MaxSteps == 3
ExprCap == MAX_CAP \div 2

\* the host's start-up calls: <<0, sym, _>> is allocTerminal(sym), <<1, l, r>> is
\* allocCons(l, r).  Ids: 0 S, 1 K, 2 I, 3 (I S), 4 (I (I S)), 5 (I (I (I S))),
\* 6 (K S), 7 ((K S) I), 8 (S K), 9 ((S K) I), 10 (((S K) I) S), 11 (S (I S)),
\* 12 (S S), 13 ((S S) (I S))
ExprCalls ==
    << <<0, SYM_S, 0>>, <<0, SYM_K, 0>>, <<0, SYM_I, 0>>, <<1, 2, 0>>, <<1, 2, 3>>,
       <<1, 2, 4>>, <<1, 1, 0>>, <<1, 6, 2>>, <<1, 0, 1>>, <<1, 8, 2>>, <<1, 9, 0>>,
       <<1, 0, 3>>, <<1, 0, 0>>, <<1, 12, 3>> >>

\* call i of ExprCalls (none past the last)
ExprCall(a, i, n) ==
    IF Poisoned(a) \/ i >= n THEN a
    ELSE IF ExprCalls[i][1] = 0 THEN allocTerminal(a, ExprCalls[i][2]).a
    ELSE allocCons(a, ExprCalls[i][2], ExprCalls[i][3]).a

\* calls i..n-1 of ExprCalls applied to `a`, in order
\* calls i..j-1
RECURSIVE ExprCallsTo(_, _, _, _)
ExprCallsTo(a, i, j, n) ==
    IF i >= j THEN a
    ELSE The({ExprCallsTo(b, i + 1, j, n) : b \in {ExprCall(a, i, n)}})

RECURSIVE ExprFrom(_, _, _)
ExprFrom(a, i, n) ==
    IF Poisoned(a) \/ i >= n THEN a
    ELSE The({ExprFrom(b, i + 4, n) : b \in {ExprCallsTo(a, i, i + 4, n)}})

ExprArena == ExprFrom(init_header(ExprCap), 1, Len(ExprCalls) + 1)

\* the ids of the rows that hold expressions
Exprs(a) == {i \in 0..(a.top - 1) : ULt(i, a.capacity) /\ KindAt(a, i) \in {Terminal, NonTerm}}

NoCall == [op |-> "none", e |-> 0, n |-> 0, id |-> 0, rw |-> 0, trap |-> FALSE, calls |-> 0]

InitReduce ==
    /\ initArenaOk(ExprCap)
    /\ ar = ExprArena
    /\ last = NoCall
    /\ th = <<>> /\ calls = {} /\ published = <<>> /\ pre = 0
    /\ sq = 0 /\ cq = 0 /\ pr = 0 /\ co = 0 /\ enq = <<>> /\ deq = <<>>
    /\ wk = 0 /\ hist = 0

ReduceRest == UNCHANGED <<th, calls, published, pre, ringVars, workerVars>>

MayReduce == last.calls < MaxReduceCalls /\ Stable(ar)

Call_allocCons(l, r) ==
    /\ MayReduce
    /\ \E n \in {allocCons(ar, l, r)} :
          /\ ar' = n.a
          /\ last' = [op |-> "cons", e |-> l, n |-> r, id |-> n.id, rw |-> 0,
                      trap |-> Poisoned(n.a), calls |-> last.calls + 1]
    /\ ReduceRest

Call_arenaKernelStep(e) ==
    /\ MayReduce
    /\ \E n \in {arenaKernelStep(ar, e)} :
          /\ ar' = n.a
          /\ last' = [op |-> "step", e |-> e, n |-> 1, id |-> n.id, rw |-> n.rw,
                      trap |-> n.trap, calls |-> last.calls + 1, was |-> Tree(ar, e)]
    /\ ReduceRest

Call_reduce(e, max) ==
    /\ MayReduce
    /\ \E n \in {reduce(ar, e, max)} :
          /\ ar' = n.a
          /\ last' = [op |-> "reduce", e |-> e, n |-> max, id |-> n.id, rw |-> n.rw,
                      trap |-> n.trap, calls |-> last.calls + 1]
    /\ ReduceRest

NextReduce ==
    \/ \E l, r \in Exprs(ar) : Call_allocCons(l, r)
    \/ \E e \in Exprs(ar) : Call_arenaKernelStep(e)
    \/ \E e \in Exprs(ar), max \in 0..MaxSteps : Call_reduce(e, max)

SpecReduce == InitReduce /\ [][NextReduce]_vars

\* C7: reduce(e, n) performs at most n rewrites (the rebuilding of parents after a
\* rewrite is not counted), and reduce(e, 0) returns e itself without rewriting.
ReduceWithinBudget ==
    (last.op = "reduce" /\ ~last.trap) =>
        /\ last.rw <= last.n
        /\ (last.n = 0 => (last.id = last.e /\ last.rw = 0))

\* a reduce that used its whole budget of 2 below a root that is no redex: the
\* root was rebuilt twice (same left child, other right child), the count is 2
ReduceWithinBudgetWitness ==
    /\ last.op = "reduce" /\ ~last.trap
    /\ last.n = 2 /\ last.rw = 2
    /\ kindOf(ar, last.e) = NonTerm
    /\ ~IsRedexI(ar, last.e) /\ ~IsRedexK(ar, last.e) /\ ~IsRedexS(ar, last.e)
    /\ last.id # last.e
    /\ kindOf(ar, last.id) = NonTerm
    /\ leftOf(ar, last.id) = leftOf(ar, last.e)

\* C8: a kernel step on a node that is a redex at the root contracts it: I x to x,
\* K x y to x, and S x y z to the hash-consed application of allocCons(x, z) to
\* allocCons(y, z).
KernelStepContracts ==
    (last.op = "step" /\ ~last.trap /\ Stable(ar) /\ kindOf(ar, last.e) = NonTerm) =>
        LET e == last.e
            z == rightOf(ar, e)
            y == rightOf(ar, leftOf(ar, e))
            x == rightOf(ar, leftOf(ar, leftOf(ar, e)))
        IN /\ IsRedexI(ar, e) => (last.id = z /\ last.rw = 1)
           /\ IsRedexK(ar, e) => (last.id = y /\ last.rw = 1)
           /\ IsRedexS(ar, e) =>
                /\ last.rw = 1
                /\ kindOf(ar, last.id) = NonTerm
                /\ leftOf(ar, leftOf(ar, last.id)) = x
                /\ rightOf(ar, leftOf(ar, last.id)) = z
                /\ leftOf(ar, rightOf(ar, last.id)) = y
                /\ rightOf(ar, rightOf(ar, last.id)) = z
                /\ allocCons(ar, x, z).id = leftOf(ar, last.id)
                /\ allocCons(ar, y, z).id = rightOf(ar, last.id)
                /\ allocCons(ar, leftOf(ar, last.id), rightOf(ar, last.id)).id = last.id
                /\ Cardinality({i \in Exprs(ar) : KindAt(ar, i) = NonTerm
                                    /\ LeftAt(ar, i) = LeftAt(ar, last.id)
                                    /\ RightAt(ar, i) = RightAt(ar, last.id)}) = 1

\* a kernel step that contracted an S redex at the root
KernelStepContractsWitness ==
    /\ last.op = "step" /\ ~last.trap /\ Stable(ar)
    /\ kindOf(ar, last.e) = NonTerm
    /\ IsRedexS(ar, last.e)
    /\ last.rw = 1
    /\ last.id # last.e

\* ---- the one-step relation on expressions (terminals <<sym>>, applications
\* <<l, r>>), contracting the first redex in pre-order ----
IsApp(t) == Len(t) = 2
RedexAt(t) ==
    /\ IsApp(t)
    /\ \/ t[1] = <<SYM_I>>
       \/ IsApp(t[1]) /\ t[1][1] = <<SYM_K>>
       \/ IsApp(t[1]) /\ IsApp(t[1][1]) /\ t[1][1][1] = <<SYM_S>>

Contractum(t) ==
    IF t[1] = <<SYM_I>> THEN t[2]
    ELSE IF t[1][1] = <<SYM_K>> THEN t[1][2]
    ELSE << <<t[1][1][2], t[2]>>, <<t[1][2], t[2]>> >>

RECURSIVE HasRedex(_)
HasRedex(t) == IsApp(t) /\ (RedexAt(t) \/ HasRedex(t[1]) \/ HasRedex(t[2]))

RECURSIVE StepTree(_)
StepTree(t) ==
    IF ~IsApp(t) THEN t
    ELSE IF RedexAt(t) THEN Contractum(t)
    ELSE IF HasRedex(t[1]) THEN <<StepTree(t[1]), t[2]>>
    ELSE <<t[1], StepTree(t[2])>>

\* along the path from e to its first redex, the result r keeps the id of the
\* child the path does not enter
RECURSIVE SiblingsKept(_, _, _)
SiblingsKept(a, e, r) ==
    IF ~HasRedex(Tree(a, e)) THEN r = e
    ELSE IF RedexAt(Tree(a, e)) THEN TRUE
    ELSE IF HasRedex(Tree(a, leftOf(a, e)))
    THEN /\ kindOf(a, r) = NonTerm
         /\ rightOf(a, r) = rightOf(a, e)
         /\ SiblingsKept(a, leftOf(a, e), leftOf(a, r))
    ELSE /\ kindOf(a, r) = NonTerm
         /\ leftOf(a, r) = leftOf(a, e)
         /\ SiblingsKept(a, rightOf(a, e), rightOf(a, r))

\* C30: a kernel step on e returns e itself exactly when e has no I, K or S redex
\* at any application node; otherwise it returns the expression obtained from e
\* by contracting one redex, the first in pre-order: every ancestor of the redex
\* is rebuilt through hash-consing (the result is the only row that holds its
\* expression) and every subtree beside the path keeps its id.
KernelStepPreOrder ==
    (last.op = "step" /\ ~last.trap /\ Stable(ar)) =>
        /\ (last.id = last.e) <=> ~HasRedex(last.was)
        /\ Tree(ar, last.e) = last.was
        /\ Tree(ar, last.id) = StepTree(last.was)
        /\ last.rw = (IF HasRedex(last.was) THEN 1 ELSE 0)
        /\ \A n \in Exprs(ar) : Tree(ar, n) = Tree(ar, last.id) => n = last.id
        /\ SiblingsKept(ar, last.e, last.id)

\* a kernel step on an expression with two redexes, none at the root: the left
\* one was contracted, the right one is still there under the rebuilt root, and
\* the rebuilt root is a row that existed before the expression did
KernelStepPreOrderWitness ==
    /\ last.op = "step" /\ ~last.trap /\ Stable(ar)
    /\ IsApp(last.was) /\ ~RedexAt(last.was)
    /\ HasRedex(last.was[1]) /\ HasRedex(last.was[2])
    /\ last.rw = 1
    /\ rightOf(ar, last.id) = rightOf(ar, last.e)
    /\ leftOf(ar, last.id) # leftOf(ar, last.e)
    /\ HasRedex(Tree(ar, last.id))
    /\ ULt(last.id, last.e)

\* --------------------------------------------------------------------------
\* The host and one worker over the two rings (SpecWorker)
\* --------------------------------------------------------------------------
MaxJobs == 2
MaxPulls == 3
FirstReq == 42
ResubmitSteps == 10

\* the expressions the host submits: S, (I S), (I (I (I S))), ((K S) I),
\* (((S K) I) S), (S (I S)), ((S S) (I S)), and ((I S) (I S)): two redexes, the
\* first one below the root
JobRoots == {0, 3, 5, 7, 10, 11, 13, 14}

\* the start expressions and one more, id 14: allocCons((I S), (I S))
WorkerArena == allocCons(ExprArena, 3, 3).a

ReqOf(i) == FirstReq + i - 1
PullsOf(q) == SelectSeq(hist.pulled, LAMBDA c : c.req_id = q)
Last(sq1) == sq1[Len(sq1)]

InitWorker ==
    /\ initArenaOk(ExprCap)
    /\ ar = WorkerArena
    /\ sq = init_at(RING_ENTRIES, Sqe(0, 0, 0))
    /\ cq = init_at(RING_ENTRIES, Cqe(0, 0))
    /\ wk = [pc |-> "dequeue", job |-> Sqe(0, 0, 0), node |-> EMPTY, rw |-> 0]
    /\ hist = [jobs |-> <<>>, pulled |-> <<>>, ev |-> <<>>]
    /\ th = <<>> /\ calls = {} /\ published = <<>> /\ pre = 0
    /\ pr = 0 /\ co = 0 /\ enq = <<>> /\ deq = <<>> /\ last = 0

WorkerRest == UNCHANGED <<th, calls, published, pre, pr, co, enq, deq, last>>

\* hostSubmit of a new expression, with the next request id
Host_Submit(e, k) ==
    /\ Len(hist.jobs) < MaxJobs
    /\ LET n == try_enqueue(sq, Sqe(e, ReqOf(Len(hist.jobs) + 1), k))
       IN /\ n.ok
          /\ sq' = n.r
          /\ hist' = [hist EXCEPT !.jobs = Append(@, [e |-> e, k |-> k, subs |-> 1])]
    /\ UNCHANGED <<ar, cq, wk>>
    /\ WorkerRest

\* hostSubmit of the Suspension the host pulled last for request ReqOf(i)
Host_Resubmit(i) ==
    /\ i \in 1..Len(hist.jobs)
    /\ LET pulls == PullsOf(ReqOf(i))
       IN /\ Len(pulls) = hist.jobs[i].subs
          /\ Len(pulls) < MaxPulls
          /\ Last(pulls).kind = Suspension
          /\ LET n == try_enqueue(sq, Sqe(Last(pulls).node, ReqOf(i), ResubmitSteps))
             IN /\ n.ok
                /\ sq' = n.r
                /\ hist' = [hist EXCEPT !.jobs[i].subs = @ + 1]
    /\ UNCHANGED <<ar, cq, wk>>
    /\ WorkerRest

\* hostPull: the host looks at the node it was handed
Host_Pull ==
    /\ LET n == try_dequeue(cq)
       IN /\ n.ok
          /\ cq' = n.r
          /\ hist' = [hist EXCEPT !.pulled =
                        Append(@, [req_id |-> n.item.req_id, node |-> n.item.node_id,
                                   kind |-> kindOf(ar, n.item.node_id),
                                   rem |-> hash_of_internal(ar, n.item.node_id),
                                   st |-> IF kindOf(ar, n.item.node_id) = Suspension
                                          THEN Captured(ar, n.item.node_id) ELSE <<>>])]
    /\ UNCHANGED <<ar, sq, wk>>
    /\ WorkerRest

Worker_Dequeue ==
    /\ wk.pc = "dequeue"
    /\ LET n == try_dequeue(sq)
       IN /\ n.ok
          /\ sq' = n.r
          /\ wk' = [wk EXCEPT !.pc = "run", !.job = n.item]
          /\ hist' = [hist EXCEPT !.ev = Append(@, [type |-> "deq", req_id |-> n.item.req_id,
                                                    node |-> n.item.node_id, kind |-> 0,
                                                    rw |-> 0, rem |-> 0])]
    /\ UNCHANGED <<ar, cq>>
    /\ WorkerRest

Worker_Run ==
    /\ wk.pc = "run"
    /\ \E w \in {WorkerJob(WorkerStart(ar, wk.job))} :
          /\ ar' = w.a
          /\ wk' = IF w.res = "Trap" THEN [wk EXCEPT !.pc = "trap"]
                   ELSE [wk EXCEPT !.pc = "post", !.node = w.node, !.rw = w.rw]
    /\ UNCHANGED <<sq, cq, hist>>
    /\ WorkerRest

Worker_Post ==
    /\ wk.pc = "post"
    /\ LET c == CompletionFor(wk.job, wk.node)
           n == try_enqueue(cq, c)
       IN /\ n.ok
          /\ cq' = n.r
          /\ wk' = [wk EXCEPT !.pc = "dequeue"]
          /\ hist' = [hist EXCEPT !.ev = Append(@, [type |-> "enq", req_id |-> c.req_id,
                                                    node |-> c.node_id,
                                                    kind |-> kindOf(ar, c.node_id),
                                                    rw |-> wk.rw,
                                                    rem |-> hash_of_internal(ar, c.node_id)])]
    /\ UNCHANGED <<ar, sq>>
    /\ WorkerRest

NextWorker ==
    \/ \E e \in JobRoots, k \in 0..MaxSteps : Host_Submit(e, k)
    \/ \E i \in 1..MaxJobs : Host_Resubmit(i)
    \/ Host_Pull
    \/ Worker_Dequeue
    \/ Worker_Run
    \/ Worker_Post

SpecWorker == InitWorker /\ [][NextWorker]_vars

\* the node a reduce of at most MaxSteps steps of e can return
IsReduct(e, node) ==
    \E m \in 0..MaxSteps : \E x \in {reduce(ar, e, m)} : ~x.trap /\ x.id = node

\* C4: for every submission the worker dequeues it enqueues exactly one completion
\* before it dequeues the next one; the completion carries the submission's req_id
\* and its node is a Suspension or the result of reducing the submitted expression.
OneCompletionPerSubmission ==
    \A i \in 1..Len(hist.ev) :
        LET v == hist.ev[i]
        IN /\ v.type = "deq" =>
                (i < Len(hist.ev) =>
                    /\ hist.ev[i + 1].type = "enq"
                    /\ hist.ev[i + 1].req_id = v.req_id)
           /\ v.type = "enq" =>
                /\ i > 1
                /\ hist.ev[i - 1].type = "deq"
                /\ v.req_id \in {ReqOf(j) : j \in 1..Len(hist.jobs)}
                /\ \/ v.kind = Suspension
                   \/ IsReduct(hist.jobs[v.req_id - FirstReq + 1].e, v.node)

\* the worker has served a first submission, a resubmission and another first
\* submission: one completion was a Suspension, another one a result
OneCompletionPerSubmissionWitness ==
    /\ Len(hist.ev) = 6
    /\ hist.ev[6].type = "enq"
    /\ \E i, j \in {2, 4, 6} :
         /\ hist.ev[i].kind = Suspension
         /\ hist.ev[j].kind # Suspension
         /\ hist.ev[i].req_id # hist.ev[j].req_id
    /\ \E i \in {1, 3, 5} : hist.ev[i].node # EMPTY /\ kindOf(ar, hist.ev[i + 1].node) # 0

\* C5: I (I (I S)) submitted as request 42 with max_steps 2 completes as a
\* Suspension whose remaining-steps field is 0; resubmitting that node with
\* max_steps 10 completes as the terminal S.
ScenarioResume ==
    \A i \in 1..Len(hist.jobs) :
        (ReqOf(i) = FirstReq /\ hist.jobs[i].e = 5 /\ hist.jobs[i].k = 2) =>
            LET pulls == PullsOf(ReqOf(i))
            IN /\ Len(pulls) >= 1 => (pulls[1].kind = Suspension /\ pulls[1].rem = 0)
               /\ Len(pulls) >= 2 => (pulls[2].kind = Terminal /\ pulls[2].node = 0)

\* the first half of the scenario alone: the Suspension with remaining steps 0
ScenarioSuspends ==
    \A i \in 1..Len(hist.jobs) :
        (ReqOf(i) = FirstReq /\ hist.jobs[i].e = 5 /\ hist.jobs[i].k = 2) =>
            LET pulls == PullsOf(ReqOf(i))
            IN Len(pulls) >= 1 => (pulls[1].kind = Suspension /\ pulls[1].rem = 0)

\* C6: when the worker ran e with max_steps k and the host resubmitted every
\* Suspension until it pulled a node r that is no Suspension, then for every
\* n >= k reduce(r, n - k) and reduce(e, n) are the same node.
YieldIdempotent ==
    \A i \in 1..Len(hist.jobs) :
        LET pulls == PullsOf(ReqOf(i))
            j == hist.jobs[i]
        IN (Len(pulls) > 0 /\ Last(pulls).kind # Suspension) =>
              \A n \in j.k..MaxSteps :
                  \A x \in {reduce(ar, Last(pulls).node, n - j.k)} :
                      \A y \in {reduce(x.a, j.e, n)} :
                          (~x.trap /\ ~y.trap) => x.id = y.id

\* a job that was suspended at least once, by the step budget or by the gas, has
\* completed with a node other than the submitted one
YieldIdempotentWitness ==
    \E i \in 1..Len(hist.jobs) :
        LET pulls == PullsOf(ReqOf(i))
        IN /\ Len(pulls) = MaxPulls
           /\ pulls[1].kind = Suspension /\ pulls[1].rem > 0
           /\ pulls[2].kind = Suspension /\ pulls[2].rem = 0
           /\ Last(pulls).kind = NonTerm
           /\ Last(pulls).node # hist.jobs[i].e
           /\ hist.jobs[i].k >= 1
           /\ ~reduce(ar, hist.jobs[i].e, MaxSteps).trap

\* the dequeued job has no budget left: max_steps = 0 on a node that is no
\* Suspension, or a Suspension whose stored remaining-steps counter is 0
ZeroBudget(a, job) ==
    IF kindOf(a, job.node_id) = Suspension
    THEN hash_of_internal(a, job.node_id) = 0
    ELSE job.max_steps = 0

\* C14: a job with no budget left is completed without a rewrite, by a node that
\* is no Suspension and is the root of the whole expression: the captured
\* current node under every frame of the captured stack; a parent whose child
\* did not change is reused, not rebuilt.
ZeroBudgetUnwinds ==
    [][(wk.pc = "run" /\ wk'.pc = "post" /\ ZeroBudget(ar, wk.job)) =>
          \A w0 \in {WorkerStart(ar, wk.job)} :
             /\ WorkerJob(w0).rw = 0
             /\ kindOf(ar', wk'.node) # Suspension
             /\ Tree(ar', wk'.node) = Plug(ar, Tree(ar, w0.curr), w0.stack)
             /\ \A n \in 0..(ar.top - 1) :
                  (kindOf(ar, n) \in {Terminal, NonTerm} /\ Tree(ar, n) = Tree(ar', wk'.node))
                  => n = wk'.node
             /\ \A n \in 0..(ar.top - 1) : Row(ar', n) = Row(ar, n)]_vars

\* the worker has run a resubmitted Suspension with no budget left and a frame
\* on its captured stack, and rebuilt that frame's parent around the captured
\* node; a fresh job with max_steps = 0 was completed before
ZeroBudgetUnwindsWitness ==
    /\ wk.pc = "post"
    /\ kindOf(ar, wk.job.node_id) = Suspension
    /\ hash_of_internal(ar, wk.job.node_id) = 0
    /\ rightOf(ar, wk.job.node_id) # EMPTY
    /\ kindOf(ar, wk.node) = NonTerm
    /\ wk.node # leftOf(ar, wk.job.node_id)
    /\ \E i \in 1..Len(hist.jobs) : hist.jobs[i].k = 0 /\ Len(PullsOf(ReqOf(i))) = 1

\* the threads between grow's even -> odd CAS and its final increment
Resizers == {t \in Threads : th[t].pc \in {"gr_header", "gr_copy", "gr_rebuild", "gr_release"}}

\* C22: while resize_seq is odd only the resizing thread writes to the arena: a
\* step of any other thread leaves the header (top included), the columns, the
\* next links and the bucket heads as they are.
ResizeExclusive ==
    [][(~Stable(ar) /\ ~Poisoned(ar)) =>
          \A t \in Threads \ Resizers : th'[t] # th[t] => ar' = ar]_vars

\* C25: publication order.  When an allocator stores the kind of its new row, the
\* row already holds the payload and the hash the call gives it: sym and hash for
\* allocTerminal, left, right and hash for allocCons, all four for alloc_generic.
KindStoredLast ==
    [][\A t \in Threads :
          LET id == th[t].id
          IN /\ (th[t].pc = "at_kind" /\ th'[t].pc = "at_rest") =>
                   (SymAt(ar', id) = th[t].sym /\ HashAt(ar', id) = th[t].sym)
             /\ (th[t].pc = "ac_kind" /\ th'[t].pc = "ac_rest") =>
                   /\ LeftAt(ar', id) = th[t].l /\ RightAt(ar', id) = th[t].r
                   /\ HashAt(ar', id) = th[t].hval
             /\ (th[t].pc = "ag_kind" /\ th'[t].pc = "idle") =>
                   /\ SymAt(ar', id) = th[t].sym /\ LeftAt(ar', id) = th[t].l
                   /\ RightAt(ar', id) = th[t].r /\ HashAt(ar', id) = 0]_vars

\* C27: a job whose Suspensions the host resubmits is completed in the end by a
\* node that is no Suspension. The worker's run is a function of the captured
\* current node, stack, mode and remaining steps, so a job that is to complete
\* never hands the host two Suspensions that captured the same state.
ResubmitCompletes ==
    \A i \in 1..Len(hist.jobs) :
        LET pulls == PullsOf(ReqOf(i))
        IN \A p \in 1..Len(pulls), q \in 1..Len(pulls) :
              (p < q /\ pulls[p].kind = Suspension /\ pulls[q].kind = Suspension)
              => pulls[p].st # pulls[q].st

\* the rewrites the worker made for request q in the first n events
RECURSIVE RewritesOf(_, _)
RewritesOf(q, n) ==
    IF n = 0 THEN 0
    ELSE RewritesOf(q, n - 1) + (IF hist.ev[n].req_id = q THEN hist.ev[n].rw ELSE 0)

OneGasBatch ==
    [][(wk.pc = "run" /\ wk'.pc = "post") =>
          WorkerJob(WorkerStart(ar, wk.job)).turns <= BATCH_GAS]_vars

\* --------------------------------------------------------------------------
\* The host and several workers over the two rings (SpecPool).  Each worker
\* runs workerLoop: dequeue_blocking on the submission ring, the reduction,
\* enqueue_blocking on the completion ring, and every load, CAS and store of a
\* worker's ring operations is a step.  A hostSubmit or hostPull call of the one
\* host thread is a single step.  Here
\*   wk:   worker -> [pc, pos: the head or tail it loaded, item: the completion
\*         it enqueues, job: the submission it works on, v: the wait word it
\*         loaded, second: it is in the try after that load]
\*   enq:  the submissions, in the order of the hostSubmit calls
\*   deq:  the completions hostPull has returned, in order
\*   hist: [taken: the submissions dequeue_blocking has returned, with the worker,
\*          posted: the completions the workers have enqueued, with the worker]
\* --------------------------------------------------------------------------
NWorkers == 2
PoolJobs == 3

Workers == 1..NWorkers
\* the submissions: S, (I S) with no step allowed, ((K S) I)
PoolNodes == <<0, 3, 7>>
PoolSteps == <<MaxSteps, 0, MaxSteps>>
PoolJob(i) ==
    LET k == ((i - 1) % Len(PoolNodes)) + 1
    IN Sqe(PoolNodes[k], ReqOf(i), PoolSteps[k])

Agent(pc) == [pc |-> pc, pos |-> 0, item |-> Cqe(0, 0), job |-> Sqe(0, 0, 0),
              v |-> 0, second |-> FALSE]

InitPool ==
    /\ initArenaOk(ExprCap)
    /\ ar = WorkerArena
    /\ sq = init_at(RING_ENTRIES, Sqe(0, 0, 0))
    /\ cq = init_at(RING_ENTRIES, Cqe(0, 0))
    /\ wk = [a \in Workers |-> Agent("d_head")]
    /\ hist = [taken |-> <<>>, posted |-> <<>>]
    /\ enq = <<>> /\ deq = <<>>
    /\ th = <<>> /\ calls = {} /\ published = <<>> /\ pre = 0
    /\ pr = 0 /\ co = 0 /\ last = 0

PoolRest == UNCHANGED <<th, calls, published, pre, pr, co, last>>

Step(a, rec) == wk' = [wk EXCEPT ![a] = rec]

\* hostSubmit of the next submission
Pool_Submit ==
    /\ Len(enq) < PoolJobs
    /\ LET n == try_enqueue(sq, PoolJob(Len(enq) + 1))
       IN /\ n.ok
          /\ sq' = n.r
          /\ enq' = Append(enq, PoolJob(Len(enq) + 1))
    /\ UNCHANGED <<ar, cq, wk, deq, hist>> /\ PoolRest

\* hostPull that finds a completion
Pool_Pull ==
    /\ LET n == try_dequeue(cq)
       IN /\ n.ok
          /\ cq' = n.r
          /\ deq' = Append(deq, n.item)
    /\ UNCHANGED <<ar, sq, wk, enq, hist>> /\ PoolRest

\* ---- a worker's dequeue_blocking on the submission ring --------------------
Deq_LoadHead(a) ==
    /\ wk[a].pc = "d_head"
    /\ Step(a, [wk[a] EXCEPT !.pos = sq.head, !.pc = "d_seq"])
    /\ UNCHANGED <<ar, sq, cq, enq, deq, hist>> /\ PoolRest

\* diff == 0: go to the CAS; diff < 0: empty, go on in dequeue_blocking;
\* otherwise retry
Deq_LoadSeq(a) ==
    /\ wk[a].pc = "d_seq"
    /\ LET diff == WSub(sq.seq[slot_at(sq, wk[a].pos)], WInc(wk[a].pos))
       IN Step(a, IF diff = 0 THEN [wk[a] EXCEPT !.pc = "d_cas"]
                  ELSE IF diff > 0 THEN [wk[a] EXCEPT !.pc = "d_head"]
                  ELSE IF wk[a].second THEN [wk[a] EXCEPT !.pc = "d_wait"]
                  ELSE [wk[a] EXCEPT !.pc = "d_load_ne"])
    /\ UNCHANGED <<ar, sq, cq, enq, deq, hist>> /\ PoolRest

\* the head is taken whatever it is now
Deq_CasBlind(a) ==
    /\ wk[a].pc = "d_cas"
    /\ sq' = [sq EXCEPT !.head = WInc(wk[a].pos)]
    /\ Step(a, [wk[a] EXCEPT !.pc = "d_payload"])
    /\ UNCHANGED <<ar, cq, enq, deq, hist>> /\ PoolRest

\* compare_exchange_weak on head: one of the workers that loaded this head wins
Deq_Cas(a) ==
    /\ wk[a].pc = "d_cas"
    /\ \E spurious \in BOOLEAN :
         IF sq.head = wk[a].pos /\ ~spurious
         THEN /\ sq' = [sq EXCEPT !.head = WInc(wk[a].pos)]
              /\ Step(a, [wk[a] EXCEPT !.pc = "d_payload"])
         ELSE /\ Step(a, [wk[a] EXCEPT !.pc = "d_head"])
              /\ UNCHANGED sq
    /\ UNCHANGED <<ar, cq, enq, deq, hist>> /\ PoolRest

Deq_Payload(a) ==
    /\ wk[a].pc = "d_payload"
    /\ Step(a, [wk[a] EXCEPT !.job = sq.payload[slot_at(sq, wk[a].pos)], !.pc = "d_store"])
    /\ UNCHANGED <<ar, sq, cq, enq, deq, hist>> /\ PoolRest

\* slot.seq.store(h + mask + 1)
Deq_Seq(a) ==
    /\ wk[a].pc = "d_store"
    /\ sq' = [sq EXCEPT !.seq[slot_at(sq, wk[a].pos)] = WInc(WAdd(wk[a].pos, sq.mask))]
    /\ Step(a, [wk[a] EXCEPT !.pc = "d_notify"])
    /\ UNCHANGED <<ar, cq, enq, deq, hist>> /\ PoolRest

\* not_full.fetch_add(1), notify; dequeue_blocking returns the submission
Deq_Notify(a) ==
    /\ wk[a].pc = "d_notify"
    /\ sq' = [sq EXCEPT !.not_full = WInc(sq.not_full)]
    /\ hist' = [hist EXCEPT !.taken = Append(@, [w |-> a, job |-> wk[a].job])]
    /\ Step(a, [wk[a] EXCEPT !.pc = "run", !.second = FALSE])
    /\ UNCHANGED <<ar, cq, enq, deq>> /\ PoolRest

Deq_LoadNotEmpty(a) ==
    /\ wk[a].pc = "d_load_ne"
    /\ Step(a, [wk[a] EXCEPT !.v = sq.not_empty, !.second = TRUE, !.pc = "d_head"])
    /\ UNCHANGED <<ar, sq, cq, enq, deq, hist>> /\ PoolRest

Deq_Wait(a) ==
    /\ wk[a].pc = "d_wait"
    /\ sq.not_empty # wk[a].v
    /\ Step(a, [wk[a] EXCEPT !.second = FALSE, !.pc = "d_head"])
    /\ UNCHANGED <<ar, sq, cq, enq, deq, hist>> /\ PoolRest

\* the reduction of the submission, up to the completion entry
Pool_Run(a) ==
    /\ wk[a].pc = "run"
    /\ \E w \in {WorkerJob(WorkerStart(ar, wk[a].job))} :
          /\ ar' = w.a
          /\ Step(a, IF w.res = "Trap" THEN [wk[a] EXCEPT !.pc = "trap"]
                     ELSE [wk[a] EXCEPT !.pc = "e_tail", !.second = FALSE,
                                        !.item = CompletionFor(wk[a].job, w.node)])
    /\ UNCHANGED <<sq, cq, enq, deq, hist>> /\ PoolRest

\* ---- a worker's enqueue_blocking on the completion ring ---------------------
Enq_LoadTail(a) ==
    /\ wk[a].pc = "e_tail"
    /\ Step(a, [wk[a] EXCEPT !.pos = cq.tail, !.pc = "e_seq"])
    /\ UNCHANGED <<ar, sq, cq, enq, deq, hist>> /\ PoolRest

\* diff == 0: go to the CAS; diff < 0: full, go on in enqueue_blocking;
\* otherwise retry
Enq_LoadSeq(a) ==
    /\ wk[a].pc = "e_seq"
    /\ LET diff == WSub(cq.seq[slot_at(cq, wk[a].pos)], wk[a].pos)
       IN Step(a, IF diff = 0 THEN [wk[a] EXCEPT !.pc = "e_cas"]
                  ELSE IF diff > 0 THEN [wk[a] EXCEPT !.pc = "e_tail"]
                  ELSE IF wk[a].second THEN [wk[a] EXCEPT !.pc = "e_wait"]
                  ELSE [wk[a] EXCEPT !.pc = "e_load_nf"])
    /\ UNCHANGED <<ar, sq, cq, enq, deq, hist>> /\ PoolRest

\* compare_exchange_weak on tail: the slot is claimed
Enq_Cas(a) ==
    /\ wk[a].pc = "e_cas"
    /\ \E spurious \in BOOLEAN :
         IF cq.tail = wk[a].pos /\ ~spurious
         THEN /\ cq' = [cq EXCEPT !.tail = WInc(wk[a].pos)]
              /\ Step(a, [wk[a] EXCEPT !.pc = "e_payload"])
              /\ hist' = [hist EXCEPT !.posted = Append(@, [w |-> a, c |-> wk[a].item])]
         ELSE /\ Step(a, [wk[a] EXCEPT !.pc = "e_tail"])
              /\ UNCHANGED <<cq, hist>>
    /\ UNCHANGED <<ar, sq, enq, deq>> /\ PoolRest

Enq_Payload(a) ==
    /\ wk[a].pc = "e_payload"
    /\ cq' = [cq EXCEPT !.payload[slot_at(cq, wk[a].pos)] = wk[a].item]
    /\ Step(a, [wk[a] EXCEPT !.pc = "e_store"])
    /\ UNCHANGED <<ar, sq, enq, deq, hist>> /\ PoolRest

\* slot.seq.store(t + 1): the entry is published
Enq_Seq(a) ==
    /\ wk[a].pc = "e_store"
    /\ cq' = [cq EXCEPT !.seq[slot_at(cq, wk[a].pos)] = WInc(wk[a].pos)]
    /\ Step(a, [wk[a] EXCEPT !.pc = "e_notify"])
    /\ UNCHANGED <<ar, sq, enq, deq, hist>> /\ PoolRest

\* not_empty.fetch_add(1), notify; the worker goes back to dequeue_blocking
Enq_Notify(a) ==
    /\ wk[a].pc = "e_notify"
    /\ cq' = [cq EXCEPT !.not_empty = WInc(cq.not_empty)]
    /\ Step(a, Agent("d_head"))
    /\ UNCHANGED <<ar, sq, enq, deq, hist>> /\ PoolRest

Enq_LoadNotFull(a) ==
    /\ wk[a].pc = "e_load_nf"
    /\ Step(a, [wk[a] EXCEPT !.v = cq.not_full, !.second = TRUE, !.pc = "e_tail"])
    /\ UNCHANGED <<ar, sq, cq, enq, deq, hist>> /\ PoolRest

Enq_Wait(a) ==
    /\ wk[a].pc = "e_wait"
    /\ cq.not_full # wk[a].v
    /\ Step(a, [wk[a] EXCEPT !.second = FALSE, !.pc = "e_tail"])
    /\ UNCHANGED <<ar, sq, cq, enq, deq, hist>> /\ PoolRest

NextPool ==
    \/ Pool_Submit
    \/ Pool_Pull
    \/ \E a \in Workers :
        \/ Deq_LoadHead(a)
        \/ Deq_LoadSeq(a)
        \/ Deq_Cas(a)
        \/ Deq_Payload(a)
        \/ Deq_Seq(a)
        \/ Deq_Notify(a)
        \/ Deq_LoadNotEmpty(a)
        \/ Deq_Wait(a)
        \/ Pool_Run(a)
        \/ Enq_LoadTail(a)
        \/ Enq_LoadSeq(a)
        \/ Enq_Cas(a)
        \/ Enq_Payload(a)
        \/ Enq_Seq(a)
        \/ Enq_Notify(a)
        \/ Enq_LoadNotFull(a)
        \/ Enq_Wait(a)

SpecPool == InitPool /\ [][NextPool]_vars

\* the completion a worker writes for a submission
PoolResult(job) == CompletionFor(job, WorkerJob(WorkerStart(WorkerArena, job)).node)

\* C38: with several workers on the same pair of rings, every submission a
\* worker takes is one the host made and no submission is taken twice (by the
\* same or by two workers); every completion the host pulls is the entry one
\* worker enqueued for a submission it took, payload unchanged, and none is
\* pulled twice; and when every worker waits for work on the empty submission
\* ring, every submission has been taken and every completion not pulled yet is
\* in the completion ring.
PoolExactlyOnce ==
    /\ \A i \in 1..Len(hist.taken) :
          /\ \E k \in 1..Len(enq) : enq[k] = hist.taken[i].job
          /\ \A j \in 1..Len(hist.taken) : hist.taken[j].job = hist.taken[i].job => i = j
    /\ \A i \in 1..Len(hist.posted) :
          \E j \in 1..Len(hist.taken) :
              /\ hist.taken[j].w = hist.posted[i].w
              /\ hist.posted[i].c = PoolResult(hist.taken[j].job)
    /\ \A i \in 1..Len(deq) :
          /\ \E k \in 1..Len(hist.posted) : hist.posted[k].c = deq[i]
          /\ \A j \in 1..Len(deq) : deq[j] = deq[i] => i = j
    /\ (\A a \in Workers : wk[a].pc = "d_wait" /\ sq.not_empty = wk[a].v)
          => /\ Len(hist.taken) = Len(enq) /\ Len(hist.posted) = Len(enq)
             /\ WSub(cq.tail, cq.head) = Len(enq) - Len(deq)

\* all submissions went through, both workers took part, and the host has every
\* completion
PoolExactlyOnceWitness ==
    /\ Len(enq) = PoolJobs /\ Len(deq) = PoolJobs
    /\ \A a \in Workers : \E i \in 1..Len(hist.taken) : hist.taken[i].w = a
    /\ \A k \in 1..PoolJobs : \E i \in 1..PoolJobs : deq[i] = PoolResult(enq[k])
    /\ \A a \in Workers : wk[a].pc = "d_wait"

\* --------------------------------------------------------------------------
\* An accessor beside a growing arena (SpecAccess): thread 1 allocates frames, and
\* grows the arena when it is full; thread 2 calls kindOf / symOf / leftOf /
\* rightOf.  Every load of the accessor is a step.
\* --------------------------------------------------------------------------
AccOps == {"kind", "sym", "left", "right"}

AccInBoundsIncl(n, cap) == ~ULt(cap, n)
\* `if n >= cap { return 0; }`
AccInBounds(n, cap) == ULt(n, cap)

\* the column cell the accessor loads
AccLoad(a, op, n) ==
    IF op = "kind" THEN KindAt(a, n)
    ELSE IF op = "sym" THEN SymAt(a, n)
    ELSE IF op = "left" THEN LeftAt(a, n)
    ELSE RightAt(a, n)

Accessor_Call(t, op, n) ==
    /\ MayCall(t)
    /\ th' = [th EXCEPT ![t].pc = "acc_enter", ![t].op = op, ![t].l = n,
                        ![t].afterGrow = pre.done]
    /\ UNCHANGED <<ar, pre>> /\ Keep

\* history: how far the growths have changed the arena.  The capacity changes
\* with the header; a growing thread is at "gr_copy" once it has written the
\* header, at "gr_rebuild" once it has moved the columns, and leaves both once it
\* has rebuilt the buckets.
GrowthProgress ==
    <<ar.capacity, {<<t, th[t].pc>> : t \in {u \in Threads : th[u].pc \in {"gr_copy", "gr_rebuild"}}}>>

\* enter_stable: traps on the poison value, spins while resize_seq is odd
Accessor_Enter(t) ==
    /\ th[t].pc = "acc_enter"
    /\ Poisoned(ar) \/ Stable(ar)
    /\ th' = [th EXCEPT ![t].pc = IF Poisoned(ar) THEN "trap" ELSE "acc_cap",
                        ![t].seq = ar.resize_seq, ![t].snap = GrowthProgress]
    /\ UNCHANGED <<ar, pre>> /\ Keep

\* the read of h.capacity and the bounds check
Accessor_Cap(t) ==
    /\ th[t].pc = "acc_cap"
    /\ IF AccInBounds(th[t].l, ar.capacity)
       THEN th' = [th EXCEPT ![t].pc = "acc_load"] /\ Keep
       ELSE Return(t, th[t], ar, 0)
    /\ UNCHANGED <<ar, pre>>

Accessor_Load(t) ==
    /\ th[t].pc = "acc_load"
    /\ th' = [th EXCEPT ![t].pc = "acc_check", ![t].id = AccLoad(ar, th[t].op, th[t].l)]
    /\ UNCHANGED <<ar, pre>> /\ Keep

\* check_stable(seq): return the value, or start again
Accessor_Check(t) ==
    /\ th[t].pc = "acc_check"
    /\ IF ar.resize_seq = th[t].seq
       THEN Return(t, th[t], ar, th[t].id)
       ELSE th' = [th EXCEPT ![t].pc = "acc_enter"] /\ Keep
    /\ UNCHANGED <<ar, pre>>

\* <<capacity, rows in use>>: one row free
AccessShapes == {<<2 * MIN_CAP, 2 * MIN_CAP - 1>>, <<MAX_CAP, MAX_CAP - 1>>}
\* a row in use, the first capacity, the largest capacity, the largest id
AccIds == {1, 2 * MIN_CAP, MAX_CAP, U32_MAX}

InitAccess == ArenaStart(AccessShapes, Threads)

NextAccess ==
    \/ AllocGeneric_Call(1)
    \/ AllocGeneric_Wait(1)
    \/ AllocGeneric_Bump(1)
    \/ AllocGeneric_Cap(1)
    \/ AllocGeneric_Payload(1)
    \/ AllocGeneric_Kind(1)
    \/ Grow_Enter(1)
    \/ Grow_Header(1)
    \/ Grow_Copy(1)
    \/ Grow_Rebuild(1)
    \/ Grow_Release(1)
    \/ \E op \in AccOps, n \in AccIds : Accessor_Call(2, op, n)
    \/ Accessor_Enter(2)
    \/ Accessor_Cap(2)
    \/ Accessor_Load(2)
    \/ Accessor_Check(2)

SpecAccess == InitAccess /\ [][NextAccess]_vars

\* C20: while resize_seq is not the poison value no step of an accessor traps,
\* and an accessor called with an id that is not below the capacity returns 0,
\* also when the arena grows during the call.
AccessorOutOfBounds ==
    [][/\ \A t \in Threads :
            (th[t].op \in AccOps /\ th'[t].pc = "trap") => Poisoned(ar)
       /\ \A c \in calls' \ calls :
            (c.op \in AccOps /\ UGe(c.l, ar.capacity)) => c.id = 0]_vars

\* an accessor has returned 0 for an id past the capacity while thread 1 is
\* inside grow, the header already switched to the doubled capacity
AccessorOutOfBoundsWitness ==
    /\ th[1].pc \in {"gr_copy", "gr_rebuild", "gr_release"}
    /\ ~Stable(ar) /\ ~Poisoned(ar)
    /\ ar.capacity = 4 * MIN_CAP
    /\ \E c \in calls : c.op \in AccOps /\ c.l = MAX_CAP /\ c.id = 0

\* --------------------------------------------------------------------------
\* reset beside growth (SpecReset): threads 1 and 2 allocate one frame each and
\* grow the arena, thread 2 may call an accessor instead, and a third thread
\* calls reset.  Every store of reset is a step.
\* --------------------------------------------------------------------------
Resetter == NThreads + 1

\* reset: ensure_arena, then the stores; nothing is waited for
Reset_Call(t) ==
    /\ MayCall(t)
    /\ th' = [th EXCEPT ![t].pc = "rs_top", ![t].op = "reset", ![t].afterGrow = pre.done]
    /\ UNCHANGED <<ar, pre>> /\ Keep

\* h.top.store(0)
Reset_Top(t) ==
    /\ th[t].pc = "rs_top"
    /\ ar' = [ar EXCEPT !.top = 0]
    /\ th' = [th EXCEPT ![t].pc = "rs_buckets"]
    /\ UNCHANGED pre /\ Keep

\* the loop over the bucket heads
Reset_Buckets(t) ==
    /\ th[t].pc = "rs_buckets"
    /\ ar' = [ar EXCEPT !.mem = FillEmpty(ar.mem, ar.offset_buckets, ar.capacity)]
    /\ th' = [th EXCEPT ![t].pc = "rs_cache"]
    /\ UNCHANGED pre /\ Keep

\* the loop over the terminal cache
Reset_Cache(t) ==
    /\ th[t].pc = "rs_cache"
    /\ ar' = [ar EXCEPT !.mem = FillEmpty(ar.mem, ar.offset_term_cache, TERM_CACHE_LEN)]
    /\ th' = [th EXCEPT ![t].pc = "rs_load"]
    /\ UNCHANGED pre /\ Keep

\* h.resize_seq.load(Relaxed)
Reset_SeqLoad(t) ==
    /\ th[t].pc = "rs_load"
    /\ th' = [th EXCEPT ![t].seq = ar.resize_seq, ![t].pc = "rs_store"]
    /\ UNCHANGED <<ar, pre>> /\ Keep

\* h.resize_seq.store(.. & !1)
Reset_SeqStore(t) ==
    /\ th[t].pc = "rs_store"
    /\ LET a2 == [ar EXCEPT !.resize_seq = th[t].seq - (th[t].seq % 2)]
       IN ar' = a2 /\ Return(t, th[t], a2, 0)
    /\ UNCHANGED pre

\* a thread's first call is alloc_generic
FirstAlloc(t) == th[t].ops = 0 /\ AllocGeneric_Call(t)

\* <<capacity, rows in use>>: no row free
ResetShapes == {<<2 * MIN_CAP, 2 * MIN_CAP>>}
\* the accessor calls of thread 2: a byte column and a word column, a row in use
ResetOps == {"kind", "left"}
ResetIds == {1}

InitReset == ArenaStart(ResetShapes, 1..Resetter)

NextReset ==
    \/ \E t \in Threads :
        \/ FirstAlloc(t)
        \/ AllocGeneric_Wait(t)
        \/ AllocGeneric_Bump(t)
        \/ AllocGeneric_Cap(t)
        \/ AllocGeneric_Payload(t)
        \/ AllocGeneric_Kind(t)
        \/ Grow_Enter(t)
        \/ Grow_Header(t)
        \/ Grow_Copy(t)
        \/ Grow_Rebuild(t)
        \/ Grow_Release(t)
    \/ \E op \in ResetOps, n \in ResetIds : Accessor_Call(2, op, n)
    \/ Accessor_Enter(2)
    \/ Accessor_Cap(2)
    \/ Accessor_Load(2)
    \/ Accessor_Check(2)
    \/ Reset_Call(Resetter)
    \/ Reset_Top(Resetter)
    \/ Reset_Buckets(Resetter)
    \/ Reset_Cache(Resetter)
    \/ Reset_SeqLoad(Resetter)
    \/ Reset_SeqStore(Resetter)

SpecReset == InitReset /\ [][NextReset]_vars

\* C21: as long as no reset has been called, no id is handed to two allocator
\* calls.  An id is handed to a call when the call's fetch_add on top returned it
\* and the capacity check let it pass; the call then stores the row.  No two
\* calls, returned or in progress, own the same id.
IdHandedOnce ==
    (th[Resetter].pc = "idle" /\ th[Resetter].ops = 0) =>
    /\ \A c \in calls, d \in calls :
          (c.own # EMPTY /\ c.own = d.own) => (c.t = d.t /\ c.n = d.n)
    /\ \A c \in calls, t \in Threads : th[t].own # EMPTY => th[t].own # c.own
    /\ \A t \in Threads, u \in Threads :
          (th[t].own # EMPTY /\ th[t].own = th[u].own) => t = u

\* C23: a value an accessor returns for an id below the capacity was read from one
\* stable layout: between the load of resize_seq in enter_stable and the re-load
\* in check_stable that lets the value through, no growth has changed the header,
\* moved the columns or rebuilt the buckets.
StableSnapshot ==
    [][\A t \in Threads :
          (th[t].pc = "acc_check" /\ th'[t].pc = "idle") => th[t].snap = GrowthProgress]_vars

\* C24: at most one thread at a time is between grow's even -> odd CAS and its
\* final increment; resize_seq is odd exactly while a thread is there; and the
\* final increment leaves resize_seq even, two above the value the CAS replaced.
OneResizer ==
    [][/\ Cardinality(Resizers') <= 1
       /\ ~Poisoned(ar') => ((ar'.resize_seq % 2 = 1) <=> (Resizers' # {}))
       /\ \A t \in Threads :
            (th[t].pc = "gr_release" /\ th'[t].pc # "gr_release")
                => ar'.resize_seq = th[t].seq + 2]_vars

\* C26: reset does not overlap a growth: whenever a step of reset writes to the
\* arena (top, the bucket heads, the terminal cache or resize_seq), resize_seq is
\* even and no thread is inside grow.
ResetWaits ==
    [][(th'[Resetter] # th[Resetter] /\ ar' # ar) => (Stable(ar) /\ Resizers = {})]_vars

\* the steps of a thread that holds the odd resize_seq
GrowStep(t) == Grow_Header(t) \/ Grow_Copy(t) \/ Grow_Rebuild(t) \/ Grow_Release(t)

\* the steps of a call in progress, outside grow
CallStep(t) ==
    \/ AllocGeneric_Wait(t) \/ AllocGeneric_Bump(t) \/ AllocGeneric_Cap(t)
    \/ AllocGeneric_Payload(t) \/ AllocGeneric_Kind(t) \/ Grow_Enter(t)
AccessorStep == Accessor_Enter(2) \/ Accessor_Cap(2) \/ Accessor_Load(2) \/ Accessor_Check(2)
ResetStep ==
    \/ Reset_Top(Resetter) \/ Reset_Buckets(Resetter) \/ Reset_Cache(Resetter)
    \/ Reset_SeqLoad(Resetter) \/ Reset_SeqStore(Resetter)

\* the resizing thread keeps running, and so does every other thread inside a
\* call; no thread has to make a further call
SpecResetFair ==
    /\ SpecReset
    /\ \A t \in Threads : WF_vars(GrowStep(t)) /\ WF_vars(CallStep(t))
    /\ WF_vars(AccessorStep) /\ WF_vars(ResetStep)

\* C35: whenever resize_seq is odd (and not the poison value) it later becomes
\* even again or poisoned, provided the thread inside grow keeps running; this
\* for every interleaving of allocator, accessor and reset calls on the other
\* threads, so that no reader and no allocator spins on an odd resize_seq for ever.
OddSeqEnds ==
    (~Poisoned(ar) /\ ar.resize_seq % 2 = 1) ~> (Stable(ar) \/ Poisoned(ar))

\* C37: a thread runs grow only when the arena is full: in the step in which its
\* CAS turns resize_seq odd, top >= capacity; and resize_seq is never poisoned
\* for the capacity ceiling while the arena still has free rows.  (Stated for
\* the runs in which reset is never called.)
GrowOnlyWhenFull ==
    [][(th[Resetter].pc = "idle" /\ th[Resetter].ops = 0) =>
        \A t \in Threads :
          /\ (th[t].pc = "gr_enter" /\ th'[t].pc = "gr_header") => UGe(ar.top, ar.capacity)
          /\ (th[t].pc = "gr_header" /\ GrowAtCeiling(th[t].g) /\ Poisoned(ar'))
                => UGe(th[t].g.old_top, th[t].g.old_cap)]_vars

\* --------------------------------------------------------------------------
\* One instance's exported calls, made one after another (SpecLife): initArena,
\* connectArena, reset, the allocators, hostSubmit and hostPull, with the
\* instance's statics ARENA_BASE_ADDR and ARENA_MODE.  The linear memory holds
\* at most one arena region, at ArenaAddr; a worker on the other end of the rings
\* takes submissions and posts completions.  Here
\*   th:   [base, mode: the two statics, calls, env: steps made so far]
\*   pre:  the magic word of the header at ArenaAddr (0 until a region is made)
\*   last: the last exported call, its arguments and what it returned
\*   hist: [reset: a reset has been made, calls: the first allocator calls after it]
\* --------------------------------------------------------------------------
MaxLifeCalls == 4
MaxEnvSteps == 2

ARENA_MAGIC == 1397442881
INITIAL_CAP == 4
HEADER_ALIGN == 64
\* pages of the linear memory before the arena is allocated; memory.grow returns it
OldPages == 2
ArenaAddr == OldPages * WASM_PAGE_SIZE
\* an aligned address inside the older pages: program data, no header
DataAddr == WASM_PAGE_SIZE
MisalignedAddr == ArenaAddr + 4

\* memory in which no arena has been laid out
NoArena ==
    [capacity |-> 0, bucket_mask |-> 0, resize_seq |-> 0, top |-> 0,
     offset_kind |-> 0, offset_sym |-> 0, offset_left_id |-> 0, offset_right_id |-> 0,
     offset_hash32 |-> 0, offset_next_idx |-> 0, offset_buckets |-> 0,
     offset_term_cache |-> 0, mem |-> <<>>]

\* what an exported call works on: the region at ArenaAddr and the statics
World ==
    [ar |-> ar, sq |-> sq, cq |-> cq, magic |-> pre, base |-> th.base, mode |-> th.mode]

\* header().magic, read through ARENA_BASE_ADDR
MagicAt(w) == IF w.base = ArenaAddr THEN w.magic ELSE 0

\* allocate_raw_arena: memory.grow, ARENA_BASE_ADDR, init_header (header, both rings)
allocate_raw_arena(w, capacity) ==
    [w EXCEPT !.ar = init_header(capacity),
              !.sq = init_at(RING_ENTRIES, Sqe(0, 0, 0)),
              !.cq = init_at(RING_ENTRIES, Cqe(0, 0)),
              !.magic = ARENA_MAGIC,
              !.base = ArenaAddr]

\* ensure_arena: lazy allocation in heap mode (a SAB-mode instance always has a base)
ensure_arena(w) ==
    IF w.base # 0 THEN w ELSE [allocate_raw_arena(w, INITIAL_CAP) EXCEPT !.mode = 0]

\* [w, ret]; oom: memory.grow fails
initArena(w, initial_capacity, oom) ==
    IF ~initArenaOk(initial_capacity) THEN [w |-> w, ret |-> 0]
    ELSE IF w.base # 0 THEN [w |-> w, ret |-> w.base]
    ELSE IF oom THEN [w |-> w, ret |-> 1]
    ELSE [w |-> [allocate_raw_arena(w, initial_capacity) EXCEPT !.mode = 1],
          ret |-> ArenaAddr]

connectArena(w, ptr_addr) ==
    IF ptr_addr = 0 \/ ptr_addr % HEADER_ALIGN # 0 THEN [w |-> w, ret |-> 0]
    ELSE LET Attached(w1) == [w |-> w1, ret |-> IF MagicAt(w1) # ARENA_MAGIC THEN 5 ELSE 1]
         IN Attached([w EXCEPT !.base = ptr_addr, !.mode = 1])

ResetKeepsCache(a) ==
    [a EXCEPT !.top = 0,
              !.mem = FillEmpty(a.mem, a.offset_buckets, a.capacity),
              !.resize_seq = a.resize_seq - (a.resize_seq % 2)]
\* reset: top, the bucket heads, the terminal cache, resize_seq & !1
reset(a) ==
    [a EXCEPT !.top = 0,
              !.mem = FillEmpty(FillEmpty(a.mem, a.offset_buckets, a.capacity),
                                a.offset_term_cache, TERM_CACHE_LEN),
              !.resize_seq = a.resize_seq - (a.resize_seq % 2)]

SubmitCodeSwapped(ok) == IF ok THEN 1 ELSE 0
SubmitCode(ok) == IF ok THEN 0 ELSE 1

\* [w, ret]
hostSubmit(w, node_id, req_id, max_steps) ==
    IF w.base = 0 THEN [w |-> w, ret |-> 2]
    ELSE LET Sent(n) == [w |-> [w EXCEPT !.sq = n.r], ret |-> SubmitCode(n.ok)]
         IN Sent(try_enqueue(w.sq, Sqe(node_id, req_id, max_steps)))

\* an i64 as its two 32-bit words; -1 is the word 0xffffffff twice
Pack64Swapped(req_id, node_id) == [hi |-> node_id, lo |-> req_id]
\* ((req_id as u64) << 32) | (node_id as u64)
Pack64(req_id, node_id) == [hi |-> req_id, lo |-> node_id]
MinusOne64 == [hi |-> U32_MAX, lo |-> U32_MAX]

\* [w, ret]
hostPull(w) ==
    IF w.base = 0 THEN [w |-> w, ret |-> MinusOne64]
    ELSE LET Pulled(n) ==
                 IF n.ok THEN [w |-> [w EXCEPT !.cq = n.r],
                               ret |-> Pack64(n.item.req_id, n.item.node_id)]
                 ELSE [w |-> w, ret |-> MinusOne64]
         IN Pulled(try_dequeue(w.cq))

LifeShapes == {<<0, 0>>} \cup InitShapes

InitLife ==
    /\ \E sh \in LifeShapes :
         IF sh[1] = 0
         THEN ar = NoArena /\ pre = 0
         ELSE initArenaOk(sh[1]) /\ ar = Prefill(sh[1], sh[2]) /\ pre = ARENA_MAGIC
    /\ th = [base |-> 0, mode |-> 0, calls |-> 0, env |-> 0]
    /\ sq = init_at(RING_ENTRIES, Sqe(0, 0, 0))
    /\ cq = init_at(RING_ENTRIES, Cqe(0, 0))
    /\ hist = [reset |-> FALSE, calls |-> <<>>]
    /\ last = [op |-> "none", x |-> 0, y |-> 0, z |-> 0, ret |-> 0, hi |-> 0,
               trap |-> FALSE]
    /\ calls = {} /\ published = <<>> /\ pr = 0 /\ co = 0 /\ enq = <<>> /\ deq = <<>>
    /\ wk = 0

MayLife == th.calls < MaxLifeCalls
\* the instance is attached to the arena region
Attached == th.base = ArenaAddr /\ pre = ARENA_MAGIC
\* ensure_arena finds the region, or lays out the only one
MayEnsure == Attached \/ (th.base = 0 /\ pre = 0)

\* the call returns: the world it leaves, and the history
LifeReturn(w, op, x, y, z, ret, hi, trap) ==
    /\ ar' = w.ar /\ sq' = w.sq /\ cq' = w.cq /\ pre' = w.magic
    /\ th' = [th EXCEPT !.base = w.base, !.mode = w.mode, !.calls = @ + 1]
    /\ last' = [op |-> op, x |-> x, y |-> y, z |-> z, ret |-> ret, hi |-> hi,
                trap |-> trap]
    /\ hist' = IF op = "reset" THEN [reset |-> TRUE, calls |-> <<>>]
               ELSE IF op \in {"term", "cons"} /\ hist.reset /\ Len(hist.calls) < 2
               THEN [hist EXCEPT !.calls = Append(@, [op |-> op, x |-> x, ret |-> ret,
                                                      trap |-> trap])]
               ELSE hist
    /\ UNCHANGED <<calls, published, pr, co, enq, deq, wk>>

Life_initArena(capacity, oom) ==
    /\ MayLife
    /\ (th.base = 0 /\ initArenaOk(capacity) /\ ~oom) => pre = 0
    /\ \E n \in {initArena(World, capacity, oom)} :
          LifeReturn(n.w, "init", capacity, 0, 0, n.ret, 0, FALSE)

Life_connectArena(ptr_addr) ==
    /\ MayLife
    /\ ptr_addr = ArenaAddr => pre = ARENA_MAGIC
    /\ \E n \in {connectArena(World, ptr_addr)} :
          LifeReturn(n.w, "connect", ptr_addr, 0, 0, n.ret, 0, FALSE)

Life_reset ==
    /\ MayLife /\ MayEnsure
    /\ \E w \in {ensure_arena(World)} :
          LifeReturn([w EXCEPT !.ar = reset(w.ar)], "reset", 0, 0, 0, 0, 0, FALSE)

\* an allocator's outcome [a, id]: it trapped when it left no id on a poisoned arena
LifeAlloc(w, n, op, x, y) ==
    LifeReturn([w EXCEPT !.ar = n.a], op, x, y, 0, n.id, 0, Poisoned(n.a) /\ n.id = EMPTY)

Life_allocTerminal(sym) ==
    /\ MayLife /\ MayEnsure
    /\ \E w \in {ensure_arena(World)} :
          \E n \in {allocTerminal(w.ar, sym)} : LifeAlloc(w, n, "term", sym, 0)

Life_allocCons(l, r) ==
    /\ MayLife /\ MayEnsure
    /\ \E w \in {ensure_arena(World)} :
          \E n \in {allocCons(w.ar, l, r)} : LifeAlloc(w, n, "cons", l, r)

Life_hostSubmit(node_id, req_id, max_steps) ==
    /\ MayLife
    /\ th.base = 0 \/ Attached
    /\ \E n \in {hostSubmit(World, node_id, req_id, max_steps)} :
          LifeReturn(n.w, "submit", node_id, req_id, max_steps, n.ret, 0, FALSE)

Life_hostPull ==
    /\ MayLife
    /\ th.base = 0 \/ Attached
    /\ \E n \in {hostPull(World)} :
          LifeReturn(n.w, "pull", 0, 0, 0, n.ret.lo, n.ret.hi, FALSE)

LifeRest == UNCHANGED <<ar, pre, hist, last, calls, published, pr, co, enq, deq, wk>>

\* the worker on the other end: takes a submission, posts a completion
Env_Take ==
    /\ pre = ARENA_MAGIC /\ th.env < MaxEnvSteps
    /\ \E n \in {try_dequeue(sq)} : n.ok /\ sq' = n.r
    /\ th' = [th EXCEPT !.env = @ + 1]
    /\ UNCHANGED cq /\ LifeRest

Env_Complete(node_id, req_id) ==
    /\ pre = ARENA_MAGIC /\ th.env < MaxEnvSteps
    /\ \E n \in {try_enqueue(cq, Cqe(node_id, req_id))} : n.ok /\ cq' = n.r
    /\ th' = [th EXCEPT !.env = @ + 1]
    /\ UNCHANGED sq /\ LifeRest

\* one turn of workerLoop: the worker takes a submission, reduces it and posts
\* the completion
Env_Work ==
    /\ pre = ARENA_MAGIC /\ th.env < MaxEnvSteps
    /\ \E d \in {try_dequeue(sq)} :
          /\ d.ok
          /\ \E w \in {WorkerJob(WorkerStart(ar, d.item))} :
                /\ w.res # "Trap"
                /\ \E e \in {try_enqueue(cq, CompletionFor(d.item, w.node))} :
                      e.ok /\ sq' = d.r /\ cq' = e.r /\ ar' = w.a
    /\ th' = [th EXCEPT !.env = @ + 1]
    /\ UNCHANGED <<pre, hist, last, calls, published, pr, co, enq, deq, wk>>

LifeCaps == {MIN_CAP - 1, MIN_CAP + 1, 2 * MIN_CAP, 2 * MAX_CAP}
ConnectAddrs == {0, DataAddr, ArenaAddr, MisalignedAddr}
LifeReqs == {FirstReq, U32_MAX}

NextLife ==
    \/ \E capacity \in LifeCaps, oom \in BOOLEAN : Life_initArena(capacity, oom)
    \/ \E ptr_addr \in ConnectAddrs : Life_connectArena(ptr_addr)
    \/ Life_reset
    \/ \E sym \in {SYM_S, SYM_K} : Life_allocTerminal(sym)
    \/ \E l \in 0..MaxArg, r \in 0..MaxArg : Life_allocCons(l, r)
    \/ \E node_id \in 0..MaxArg : Life_hostSubmit(node_id, FirstReq, MaxSteps)
    \/ Life_hostPull
    \/ Env_Take
    \/ \E req_id \in LifeReqs : Env_Complete(0, req_id)

SpecLife == InitLife /\ [][NextLife]_vars

\* the host and the worker (SpecHost): the host makes an arena, allocates,
\* submits and pulls; the worker takes each submission through workerLoop
HostNodes == {0, 1, EMPTY}
HostSteps == {0, MaxSteps}

NextHost ==
    \/ Life_initArena(2 * MIN_CAP, FALSE)
    \/ \E sym \in {SYM_S, SYM_K} : Life_allocTerminal(sym)
    \/ \E node_id \in HostNodes, req_id \in LifeReqs, max_steps \in HostSteps :
          Life_hostSubmit(node_id, req_id, max_steps)
    \/ Life_hostPull
    \/ Env_Work

SpecHost == InitLife /\ [][NextHost]_vars

\* --------------------------------------------------------------------------
\* Properties of the exported calls
\* --------------------------------------------------------------------------
\* this step is an exported call of the instance
Called == th'.calls # th.calls

\* the entries a ring holds, oldest first
Contents(r) ==
    [i \in 1..WSub(r.tail, r.head) |-> r.payload[slot_at(r, WAdd(r.head, i - 1))]]

\* C13: once resize_seq is the poison value it stays so whatever call is made,
\* and every allocTerminal / allocCons call made from then on traps.
PoisonPermanent ==
    [][Poisoned(ar) =>
          /\ Poisoned(ar')
          /\ (Called /\ last'.op \in {"term", "cons"}) => last'.trap]_vars

\* the first allocator calls after a reset: allocTerminal(S) returns 0, and an
\* allocTerminal(K) that follows it returns 1
AfterReset ==
    hist.reset =>
        /\ (/\ Len(hist.calls) >= 1
            /\ hist.calls[1].op = "term" /\ hist.calls[1].x = SYM_S)
           => (hist.calls[1].ret = 0 /\ ~hist.calls[1].trap)
        /\ (/\ Len(hist.calls) >= 2
            /\ hist.calls[1].op = "term" /\ hist.calls[1].x = SYM_S
            /\ hist.calls[2].op = "term" /\ hist.calls[2].x = SYM_K)
           => (hist.calls[2].ret = 1 /\ ~hist.calls[2].trap)

\* C15: when reset returns, top is 0, every bucket head and every slot of the
\* terminal cache is EMPTY, and the capacity and both rings are what they were;
\* the first allocTerminal(S) after it returns 0 and the allocTerminal(K) that
\* follows returns 1.
ResetClears ==
    [][/\ (Called /\ last'.op = "reset") =>
            /\ ar'.top = 0
            /\ \A b \in 0..(ar'.capacity - 1) : BucketAt(ar', b) = EMPTY
            /\ \A c \in 0..(TERM_CACHE_LEN - 1) : TermCacheAt(ar', c) = EMPTY
            /\ pre = ARENA_MAGIC => (ar'.capacity = ar.capacity /\ sq' = sq /\ cq' = cq)
       /\ AfterReset']_vars

\* a reset of the full arena (stale rows are still in the columns), then
\* allocTerminal(S) and allocTerminal(K)
ResetClearsWitness ==
    /\ hist.reset /\ Len(hist.calls) = 2
    /\ hist.calls[1] = [op |-> "term", x |-> SYM_S, ret |-> 0, trap |-> FALSE]
    /\ hist.calls[2] = [op |-> "term", x |-> SYM_K, ret |-> 1, trap |-> FALSE]
    /\ ar.capacity = MAX_CAP /\ ar.top = 2
    /\ KindAt(ar, 2) = NonTerm

HostPullPacks ==
    [][(Called /\ last'.op = "pull") =>
          IF th.base = 0 \/ Len(Contents(cq)) = 0
          THEN /\ last'.hi = U32_MAX /\ last'.ret = U32_MAX
               /\ ar' = ar /\ sq' = sq /\ cq' = cq
          ELSE /\ Contents(cq') = Tail(Contents(cq))
               /\ last'.hi = Head(Contents(cq)).req_id
               /\ last'.ret = Head(Contents(cq)).node_id
               /\ ar' = ar /\ sq' = sq]_vars

\* a hostPull has returned the older of two completions, a negative value other
\* than -1 (req_id 0xffffffff, node 0); the younger one is still in the ring
HostPullPacksWitness ==
    /\ last.op = "pull" /\ last.hi = U32_MAX /\ last.ret = 0
    /\ Len(Contents(cq)) = 1
    /\ Contents(cq)[1].req_id = FirstReq

\* C39: hostPull returns -1 only when the completion ring is empty or no arena
\* is attached: no completion a worker posts for a submission, whatever 32-bit
\* node_id and req_id the host submitted, comes out of hostPull as -1.
PullMinusOneOnlyEmpty ==
    [][(Called /\ last'.op = "pull" /\ last'.hi = U32_MAX /\ last'.ret = U32_MAX)
          => (th.base = 0 \/ Len(Contents(cq)) = 0)]_vars

\* C18: connectArena returns 1 for a 64-byte aligned address whose header has
\* the magic (and a valid capacity), 5 when the magic does not match, 6 when the
\* address is not 64-byte aligned.
ConnectCodes ==
    [][(Called /\ last'.op = "connect" /\ last'.x # 0) =>
          last'.ret = IF last'.x % HEADER_ALIGN # 0 THEN 6
                      ELSE IF last'.x = ArenaAddr /\ pre = ARENA_MAGIC THEN 1
                      ELSE 5]_vars

\* C19: an initArena or connectArena that fails leaves ARENA_BASE_ADDR,
\* ARENA_MODE and the shared region as they were.
FailedAttachKeeps ==
    [][(/\ Called
        /\ \/ last'.op = "init" /\ last'.ret \in {0, 1}
           \/ last'.op = "connect" /\ last'.ret # 1) =>
          /\ th'.base = th.base /\ th'.mode = th.mode
          /\ ar' = ar /\ sq' = sq /\ cq' = cq /\ pre' = pre]_vars

==============================================================================
